---- MODULE Spec2Model ----
(***************************************************************************)
(* ndlkotenocr-lite-worker: the controller-side task queue                 *)
(* (WorkerMessageHandler, utils/message-handler.js) and the worker-side    *)
(* pipeline orchestrator (OCRWorker, worker/ocr-worker.js), joined by the  *)
(* two postMessage channels of a dedicated Web Worker.                     *)
(*                                                                         *)
(* Progress fractions are kept in thousandths (0.13 is 130).  Date.now()   *)
(* is taken to be non-decreasing.  One worker action is one run of the     *)
(* worker's event loop between two suspensions on an external operation    *)
(* (model download, session creation, inference).                          *)
(***************************************************************************)
EXTENDS Integers, Sequences, FiniteSets, TLC

\* ---------------------------------------------------------------- bounds
MaxJobs == 2
MaxWorkers == 2
MaxRegions == 1
MaxClock == 1
MaxResends == 1
MaxCalls == 2

JobIds == 1..MaxJobs

VARIABLES
  \* WorkerMessageHandler
  worker,           \* this.worker: 0 is null, else the number of the Worker object
  taskQueue,        \* this.taskQueue: the Map's entries in insertion order
  currentTaskId,    \* this.currentTaskId: 0 is null
  isWorkerBusy,     \* this.isWorkerBusy
  promise,          \* state of the promise processOCR returned for each task id
  sent,             \* number of OCR_PROCESS messages posted for each task id
  removed,          \* how each task left taskQueue: "no", "terminal" or "cancel"
  tasksCreated,     \* number of task ids generateTaskId has produced
  workersCreated,   \* number of Worker objects constructed
  clock,            \* the last value Date.now() returned
  \* the channels of the current Worker object
  inbox,            \* messages posted to the worker, not yet dispatched to self.onmessage
  outbox,           \* messages posted by the worker, not yet dispatched to worker.onmessage
  \* OCRWorker (the global scope of the current Worker object)
  acts,             \* the calls of self.onmessage in order of receipt: those suspended
                    \* and those that returned in the latest run of the event loop
  isInitialized,    \* ocrWorker.isInitialized
  layoutDetector,   \* ocrWorker.layoutDetector: "null", "created" or "initialized"
  textRecognizer,   \* ocrWorker.textRecognizer: "null", "created" or "initialized"
  terminals,        \* number of OCR_COMPLETE/OCR_ERROR messages posted with each task id
  \* one call of OCRWorker.processOCR with its data
  job,              \* the request, the locals of the call and the message it ends with
  \* one call of a function of the worker's pipeline stages
  call,             \* the function, its arguments and its return value
  \* NDLKotenOCR (main.js)
  api,              \* this.initialized and the promises of initialize and processImage
  \* utils/model-loader.js
  loader            \* the object store of the cache and the calls of the loader

ctlVars == <<worker, taskQueue, currentTaskId, isWorkerBusy, promise, sent,
             removed, tasksCreated, workersCreated, clock>>
wrkVars == <<acts, isInitialized, layoutDetector, textRecognizer>>
sideVars == <<job, call, api, loader>>
vars == <<ctlVars, inbox, outbox, wrkVars, terminals, sideVars>>

\* no processOCR call with data, no function call, no NDLKotenOCR instance,
\* no use of the model cache
NoJob == [pc |-> "none"]
NoCall == [fn |-> "none"]
NoApi == [state |-> "none"]
NoLoader == [state |-> "none"]

\* ------------------------------------------------------------- messages
NoStage == "undefined"

Request(type, id) == [type |-> type, id |-> id]

Progress(id, stage, p) ==
  [type |-> "OCR_PROGRESS", id |-> id, stage |-> stage, progress |-> p]

Complete(id) ==
  [type |-> "OCR_COMPLETE", id |-> id, stage |-> NoStage, progress |-> 0]

Error(id, stage) ==
  [type |-> "OCR_ERROR", id |-> id, stage |-> stage, progress |-> 0]

IsTerminal(m) == m.type \in {"OCR_COMPLETE", "OCR_ERROR"}

PipelineStages ==
  {"layout_detection", "text_recognition", "reading_order", "generating_output"}

\* the stages in the order processOCR posts them
StageOrder ==
  <<"layout_detection", "text_recognition", "reading_order", "generating_output">>

StageRank(stage) == CHOOSE r \in 1..Len(StageOrder) : StageOrder[r] = stage

\* ------------------------------------------------------------- helpers
Last(s) == s[Len(s)]

RemoveAt(s, k) == SubSeq(s, 1, k - 1) \o SubSeq(s, k + 1, Len(s))

NonDecreasing(s) == \A i \in 1..(Len(s) - 1) : s[i] <= s[i + 1]

IsProgress(m) == m.type = "OCR_PROGRESS"

ProgressValues(out) ==
  LET ps == SelectSeq(out, IsProgress)
  IN  [i \in 1..Len(ps) |-> ps[i].progress]

CountTerminals(out, id) ==
  Cardinality({i \in 1..Len(out) : IsTerminal(out[i]) /\ out[i].id = id})

QueueIds(q) == {q[i].id : i \in 1..Len(q)}

\* ======================================================================
\*                     OCRWorker (worker/ocr-worker.js)
\* ======================================================================
\* one call of self.onmessage: det and rec tell whether ocrWorker.layoutDetector
\* and ocrWorker.textRecognizer still are the objects this call constructed
\* last, progressOK, initFailed, stages and terminal record what the call did:
\* the progress value it posted last, whether its progress values so far were
\* non-decreasing and within [0,1], whether its initialize() failed, the stages
\* of its id-tagged progress messages, whether it posted a stage for its id
\* after another call had posted a later stage for that id, and its terminal
\* message
NewAct(kind, id) ==
  [kind |-> kind, id |-> id, pc |-> "start", det |-> FALSE, rec |-> FALSE,
   n |-> 0, i |-> 0, last |-> 0, progressOK |-> TRUE, initFailed |-> FALSE,
   stages |-> << >>, recurs |-> FALSE, terminal |-> "none",
   errorStage |-> NoStage]

NotDone(a) == a.pc # "done"

\* the calls that have not returned
Running == SelectSeq(acts, NotDone)

\* progress callbacks of one loadModel call: one (cache hit, or a download
\* in a single chunk) or one per chunk
ChunkRuns == {<<1000>>, <<500, 1000>>}

LoadProgress(stage, base, chunks) ==
  [i \in 1..Len(chunks) |-> Progress(0, stage, base + (chunks[i] * 4) \div 10)]

\* stages 3 and 4 of processOCR: reading order, output assembly, OCR_COMPLETE;
\* the output generators throw on a malformed config.outputFormats
Finish(a) ==
  LET head == << Progress(a.id, "reading_order", 800),
                 Progress(a.id, "generating_output", 900) >>
  IN  { [act |-> [a EXCEPT !.pc = "done"], out |-> head \o <<Complete(a.id)>>],
        [act |-> [a EXCEPT !.pc = "done"], out |-> head \o <<Error(a.id, NoStage)>>] }

RegionProgress(a, i) ==
  Progress(a.id, "text_recognition", 400 + ((i + 1) * 400) \div a.n)

\* the recognition loop of processOCR from region i on: recognize() throws
\* outside its try block when the recognizer is missing or uninitialized,
\* returns at once when cropping or preprocessing fails, and otherwise
\* suspends on the inference
RECURSIVE RecognizeFrom(_, _, _)
RecognizeFrom(a, i, rec) ==
  IF i >= a.n THEN Finish(a)
  ELSE IF rec # "initialized"
  THEN { [act |-> [a EXCEPT !.pc = "done", !.i = i],
          out |-> <<Error(a.id, NoStage)>>] }
  ELSE { [act |-> [a EXCEPT !.pc = "recognize", !.i = i], out |-> << >>] }
       \cup { [act |-> r.act, out |-> <<RegionProgress(a, i)>> \o r.out] :
              r \in RecognizeFrom(a, i + 1, rec) }

\* processOCR from "Stage 1" up to the suspension on the detector's inference
DetectStart(a, det) ==
  LET p0 == <<Progress(a.id, "layout_detection", 100)>>
      p1 == p0 \o <<Progress(a.id, "layout_detection", 130)>>
  IN  IF det # "initialized"
      THEN { [act |-> [a EXCEPT !.pc = "done"],
              out |-> p0 \o <<Error(a.id, NoStage)>>] }
      ELSE { [act |-> [a EXCEPT !.pc = "done"],
              out |-> p1 \o <<Error(a.id, NoStage)>>],
             [act |-> [a EXCEPT !.pc = "detect"],
              out |-> p1 \o <<Progress(a.id, "layout_detection", 250)>>] }

\* detect() after the inference returned n regions, then "Stage 2"
DetectEnd(a, n, rec) ==
  LET a1 == [a EXCEPT !.n = n]
      head == << Progress(a.id, "layout_detection", 340),
                 Progress(a.id, "layout_detection", 400),
                 Progress(a.id, "text_recognition", 400) >>
  IN  { [act |-> r.act, out |-> head \o r.out] : r \in RecognizeFrom(a1, 0, rec) }

\* what follows the return of initialize() in its caller
AfterInitialize(a, det) ==
  IF a.kind = "INITIALIZE"
  THEN { [act |-> [a EXCEPT !.pc = "done"], out |-> << >>] }
  ELSE DetectStart(a, det)

\* initialize() up to its first suspension
InitEnter(a, det) ==
  IF isInitialized
  THEN AfterInitialize(a, det)
  ELSE { [act |-> [a EXCEPT !.pc = "loadLayout"],
          out |-> <<Progress(0, "initializing", 100)>>] }

RECURSIVE StageTrail(_, _)
StageTrail(trail, out) ==
  IF out = << >> THEN trail
  ELSE LET m == Head(out)
       IN  IF IsProgress(m) /\ m.id # 0 /\ (trail = << >> \/ Last(trail) # m.stage)
           THEN StageTrail(Append(trail, m.stage), Tail(out))
           ELSE StageTrail(trail, Tail(out))

\* record what the call posted; a call that has returned keeps the record only
Track(a, out) ==
  LET ps == ProgressValues(out)
      ok == /\ a.progressOK
            /\ NonDecreasing(<<a.last>> \o ps)
            /\ \A i \in 1..Len(ps) : ps[i] \in 0..1000
      ended == out # << >> /\ IsTerminal(Last(out)) /\ Last(out).id # 0
      late == \E i \in 1..Len(out), j \in 1..Len(acts) :
                /\ IsProgress(out[i]) /\ out[i].id # 0
                /\ acts[j].kind = "OCR_PROCESS" /\ acts[j].id = out[i].id
                /\ Len(acts[j].stages) > StageRank(out[i].stage)
      b == [a EXCEPT !.last = IF Len(ps) = 0 THEN a.last ELSE Last(ps),
                     !.progressOK = ok,
                     !.stages = StageTrail(a.stages, out),
                     !.recurs = a.recurs \/ late,
                     !.terminal = IF ended THEN Last(out).type ELSE a.terminal,
                     !.errorStage = IF ended THEN Last(out).stage ELSE a.errorStage]
  IN  IF a.pc = "done"
      THEN [b EXCEPT !.det = FALSE, !.rec = FALSE, !.n = 0, !.i = 0, !.last = 0]
      ELSE b

\* The channel to the controller.  worker.onmessage does nothing with an
\* OCR_PROGRESS message but hand it to the 'progress' listeners, so the
\* channel keeps one entry for a run of OCR_PROGRESS messages of one task id
\* (the latest) and none for the id-less ones of initialize().
RECURSIVE Deliver(_, _)
Deliver(box, out) ==
  IF out = << >> THEN box
  ELSE LET m == Head(out)
       IN  IF IsProgress(m) /\ m.id = 0
           THEN Deliver(box, Tail(out))
           ELSE IF IsProgress(m) /\ box # << >> /\ IsProgress(Last(box))
                                 /\ Last(box).id = m.id
           THEN Deliver(Append(SubSeq(box, 1, Len(box) - 1), m), Tail(out))
           ELSE Deliver(Append(box, m), Tail(out))

Post(out) ==
  /\ outbox' = Deliver(outbox, out)
  /\ terminals' = [id \in JobIds |-> terminals[id] + CountTerminals(out, id)]

\* the message types self.onmessage and handleWorkerMessage have a case for
\* (TERMINATE, which closes the worker, is not sent by the controller)
WorkerRequestTypes == {"INITIALIZE", "OCR_PROCESS"}
WorkerMessageTypes == {"OCR_PROGRESS", "OCR_COMPLETE", "OCR_ERROR"}

\* the default case of self.onmessage: console.warn, and the call returns
ReceiveDefault(m) ==
  /\ acts' = Append(Running, [NewAct(m.type, m.id) EXCEPT !.pc = "done"])
  /\ UNCHANGED <<outbox, terminals>>

\* self.onmessage: dispatch of the oldest posted message
Receive ==
  /\ worker # 0
  /\ inbox # << >>
  /\ LET m == Head(inbox)
         a == NewAct(m.type, m.id)
     IN  IF m.type \in WorkerRequestTypes
         THEN /\ Len(Running) < MaxCalls
              /\ \E r \in (IF m.type = "INITIALIZE" \/ ~isInitialized
                            THEN InitEnter(a, layoutDetector)
                            ELSE DetectStart(a, layoutDetector)) :
                    /\ acts' = Append(Running, Track(r.act, r.out))
                    /\ Post(r.out)
         ELSE ReceiveDefault(m)
  /\ inbox' = Tail(inbox)
  /\ UNCHANGED <<ctlVars, isInitialized, layoutDetector, textRecognizer>>
  /\ UNCHANGED sideVars

\* the catch block of initialize(), then its caller goes on
InitFail(k) ==
  LET a == [Running[k] EXCEPT !.initFailed = TRUE]
  IN  /\ \E r \in AfterInitialize(a, layoutDetector) :
           LET out == <<Error(0, "initialization")>> \o r.out
           IN  /\ acts' = [Running EXCEPT ![k] = Track(r.act, out)]
               /\ Post(out)
      /\ UNCHANGED <<isInitialized, layoutDetector, textRecognizer>>

\* loadModel('layout') settles
LoadLayoutModel ==
  /\ worker # 0
  /\ \E k \in 1..Len(Running) :
       /\ Running[k].pc = "loadLayout"
       /\ \/ InitFail(k)
          \/ \E ch \in ChunkRuns :
               LET out == LoadProgress("loading_layout_model", 100, ch)
               IN  /\ acts' = [Running EXCEPT
                                 ![k] = Track([@ EXCEPT !.pc = "loadRecog"], out)]
                   /\ Post(out)
                   /\ UNCHANGED <<isInitialized, layoutDetector, textRecognizer>>
  /\ UNCHANGED <<ctlVars, inbox>>
  /\ UNCHANGED sideVars

\* loadModel('recognition') settles; this.layoutDetector = new LayoutDetector()
LoadRecognitionModel ==
  /\ worker # 0
  /\ \E k \in 1..Len(Running) :
       /\ Running[k].pc = "loadRecog"
       /\ \/ InitFail(k)
          \/ \E ch \in ChunkRuns :
               LET out == LoadProgress("loading_recognition_model", 500, ch)
               IN  /\ acts' = [j \in 1..Len(Running) |->
                                 IF j = k
                                 THEN Track([Running[k] EXCEPT !.pc = "initLayout",
                                                               !.det = TRUE], out)
                                 ELSE [Running[j] EXCEPT !.det = FALSE]]
                   /\ Post(out)
                   /\ layoutDetector' = "created"
                   /\ UNCHANGED <<isInitialized, textRecognizer>>
  /\ UNCHANGED <<ctlVars, inbox>>
  /\ UNCHANGED sideVars

\* layoutDetector.initialize settles; this.textRecognizer = new TextRecognizer()
InitLayoutDetector ==
  /\ worker # 0
  /\ \E k \in 1..Len(Running) :
       /\ Running[k].pc = "initLayout"
       /\ \/ InitFail(k)
          \/ /\ acts' = [j \in 1..Len(Running) |->
                           IF j = k
                           THEN [Running[k] EXCEPT !.pc = "initRecog", !.rec = TRUE]
                           ELSE [Running[j] EXCEPT !.rec = FALSE]]
             /\ layoutDetector' =
                  IF Running[k].det THEN "initialized" ELSE layoutDetector
             /\ textRecognizer' = "created"
             /\ Post(<< >>)
             /\ UNCHANGED isInitialized
  /\ UNCHANGED <<ctlVars, inbox>>
  /\ UNCHANGED sideVars

\* textRecognizer.initialize settles; this.isInitialized = true
InitTextRecognizer ==
  /\ worker # 0
  /\ \E k \in 1..Len(Running) :
       /\ Running[k].pc = "initRecog"
       /\ \/ InitFail(k)
          \/ /\ textRecognizer' =
                  IF Running[k].rec THEN "initialized" ELSE textRecognizer
             /\ isInitialized' = TRUE
             /\ \E r \in AfterInitialize(Running[k], layoutDetector) :
                  LET out == <<Progress(0, "initialized", 1000)>> \o r.out
                  IN  /\ acts' = [Running EXCEPT ![k] = Track(r.act, out)]
                      /\ Post(out)
             /\ UNCHANGED layoutDetector
  /\ UNCHANGED <<ctlVars, inbox>>
  /\ UNCHANGED sideVars

\* the detector's inference settles
DetectInference ==
  /\ worker # 0
  /\ \E k \in 1..Len(Running) :
       /\ Running[k].pc = "detect"
       /\ \/ LET out == <<Error(Running[k].id, NoStage)>>
             IN  /\ acts' = [Running EXCEPT
                               ![k] = Track([@ EXCEPT !.pc = "done"], out)]
                 /\ Post(out)
          \/ \E n \in 0..MaxRegions :
               \E r \in DetectEnd(Running[k], n, textRecognizer) :
                 /\ acts' = [Running EXCEPT ![k] = Track(r.act, r.out)]
                 /\ Post(r.out)
  /\ UNCHANGED <<ctlVars, inbox, isInitialized, layoutDetector, textRecognizer>>
  /\ UNCHANGED sideVars

\* the recognizer's inference for region i settles (a failure is caught
\* inside recognize), and the loop goes on
RecognizeInference ==
  /\ worker # 0
  /\ \E k \in 1..Len(Running) :
       /\ Running[k].pc = "recognize"
       /\ LET a == Running[k]
          IN  \E r \in RecognizeFrom(a, a.i + 1, textRecognizer) :
                LET out == <<RegionProgress(a, a.i)>> \o r.out
                IN  /\ acts' = [Running EXCEPT ![k] = Track(r.act, out)]
                    /\ Post(out)
  /\ UNCHANGED <<ctlVars, inbox, isInitialized, layoutDetector, textRecognizer>>
  /\ UNCHANGED sideVars

\* ======================================================================
\*              WorkerMessageHandler (utils/message-handler.js)
\* ======================================================================
Pending == "pending"
Rejections ==
  {"OCR processing failed", "Task cancelled", "All tasks cancelled",
   "Worker terminated", "Worker not initialized"}

\* task.resolve / task.reject: a settled promise stays as it is
Settle(p, id, v) == IF p[id] = Pending THEN [p EXCEPT ![id] = v] ELSE p

\* the loop over taskQueue.values() left out
RejectEach_none(p, q, reason) == p

RECURSIVE RejectEach(_, _, _)
RejectEach(p, q, reason) ==
  IF q = << >> THEN p
  ELSE RejectEach(Settle(p, Head(q).id, reason), Tail(q), reason)

IndexOf(q, id) == CHOOSE i \in 1..Len(q) : q[i].id = id

Delete(q, id) == IF id \in QueueIds(q) THEN RemoveAt(q, IndexOf(q, id)) ELSE q

\* the comparator reversed: the newest task first
OldestTask_reversed(q) ==
  LET i == CHOOSE j \in 1..Len(q) :
             /\ \A h \in 1..Len(q) : q[j].timestamp >= q[h].timestamp
             /\ \A h \in (j + 1)..Len(q) : q[h].timestamp # q[j].timestamp
  IN  q[i]

\* Array.from(values()).sort((a, b) => a.timestamp - b.timestamp)[0]:
\* the sort is stable, so among equal timestamps the first inserted wins
OldestTask(q) ==
  LET i == CHOOSE j \in 1..Len(q) :
             /\ \A h \in 1..Len(q) : q[j].timestamp <= q[h].timestamp
             /\ \A h \in 1..(j - 1) : q[h].timestamp # q[j].timestamp
  IN  q[i]

\* processNextTask on queue q with busy flag b and current id c.
\* post is the id of the task whose OCR_PROCESS sendMessage is called with
ProcessNextTask(q, b, c) ==
  IF b \/ Len(q) = 0
  THEN [busy |-> b, cur |-> c, post |-> 0]
  ELSE [busy |-> TRUE, cur |-> OldestTask(q).id, post |-> OldestTask(q).id]

\* number of OCR_PROCESS messages posted for a task that had one posted before
RECURSIVE Resends(_)
Resends(ids) ==
  IF ids = {} THEN 0
  ELSE LET id == CHOOSE x \in ids : TRUE
       IN  (IF sent[id] > 1 THEN sent[id] - 1 ELSE 0) + Resends(ids \ {id})

\* sendMessage of the OCR_PROCESS request chosen by processNextTask
\* (it throws before posting when there is no worker)
SendRequest(id, box) ==
  IF id = 0 \/ worker = 0 THEN box ELSE Append(box, Request("OCR_PROCESS", id))

CountSend(id) ==
  IF id = 0 \/ worker = 0 THEN sent ELSE [sent EXCEPT ![id] = @ + 1]

FreshWorkerState ==
  /\ acts' = << >>
  /\ isInitialized' = FALSE
  /\ layoutDetector' = "null"
  /\ textRecognizer' = "null"
  /\ outbox' = << >>

\* terminateWorker followed by the synchronous part of initializeWorker:
\* the old Worker object and its undelivered messages are gone, a new one is
\* constructed and INITIALIZE is posted to it
ReplaceWorker ==
  /\ workersCreated' = workersCreated + 1
  /\ worker' = workersCreated + 1
  /\ inbox' = <<Request("INITIALIZE", 0)>>
  /\ FreshWorkerState

MarkRemoved(ids, how) ==
  [id \in JobIds |-> IF id \in ids /\ removed[id] = "no" THEN how ELSE removed[id]]

\* initializeWorker()
InitializeWorker ==
  /\ workersCreated < MaxWorkers
  /\ IF worker # 0
     THEN /\ promise' = RejectEach(promise, taskQueue, "Worker terminated")
          /\ removed' = MarkRemoved(QueueIds(taskQueue), "cancel")
          /\ taskQueue' = << >>
          /\ isWorkerBusy' = FALSE
          /\ currentTaskId' = 0
     ELSE UNCHANGED <<promise, removed, taskQueue, isWorkerBusy, currentTaskId>>
  /\ ReplaceWorker
  /\ UNCHANGED <<sent, tasksCreated, clock, terminals>>
  /\ UNCHANGED sideVars

\* processOCR(imageData, config)
ProcessOCR ==
  /\ tasksCreated < MaxJobs
  /\ \E now \in {clock, clock + 1} :
       /\ now <= MaxClock
       /\ clock' = now
  /\ LET id == tasksCreated + 1
         q == Append(taskQueue, [id |-> id, timestamp |-> clock'])
         r == IF isWorkerBusy
              THEN [busy |-> isWorkerBusy, cur |-> currentTaskId, post |-> 0]
              ELSE ProcessNextTask(q, isWorkerBusy, currentTaskId)
     IN  /\ tasksCreated' = id
         /\ taskQueue' = q
         /\ isWorkerBusy' = r.busy
         /\ currentTaskId' = r.cur
         /\ inbox' = SendRequest(r.post, inbox)
         /\ sent' = CountSend(r.post)
         /\ promise' = [promise EXCEPT ![id] =
                          IF r.post # 0 /\ worker = 0
                          THEN "Worker not initialized" ELSE Pending]
  /\ UNCHANGED <<worker, removed, workersCreated, outbox, wrkVars, terminals>>
  /\ UNCHANGED sideVars

\* the slot not freed before processNextTask
HandleTerminal_staysBusy(id, outcome) ==
  LET q == Delete(taskQueue, id)
      r == ProcessNextTask(q, isWorkerBusy, currentTaskId)
  IN  /\ promise' = IF id \in QueueIds(taskQueue)
                    THEN Settle(promise, id, outcome) ELSE promise
      /\ removed' = MarkRemoved(QueueIds(taskQueue) \cap {id}, "terminal")
      /\ taskQueue' = q
      /\ isWorkerBusy' = r.busy
      /\ currentTaskId' = r.cur
      /\ inbox' = SendRequest(r.post, inbox)
      /\ sent' = CountSend(r.post)

\* handleTaskComplete / handleTaskError, reached from handleWorkerMessage
HandleTerminal(id, outcome) ==
  LET q == Delete(taskQueue, id)
      r == ProcessNextTask(q, FALSE, 0)
  IN  /\ (r.post # 0 /\ sent[r.post] > 0) => Resends(JobIds) < MaxResends
      /\ promise' = IF id \in QueueIds(taskQueue)
                    THEN Settle(promise, id, outcome) ELSE promise
      /\ removed' = MarkRemoved(QueueIds(taskQueue) \cap {id}, "terminal")
      /\ taskQueue' = q
      /\ isWorkerBusy' = r.busy
      /\ currentTaskId' = r.cur
      /\ inbox' = SendRequest(r.post, inbox)
      /\ sent' = CountSend(r.post)

\* an unknown type handled as OCR_ERROR would be
HandleDefault_asError(m) == HandleTerminal(m.id, "OCR processing failed")

\* the default case of handleWorkerMessage: console.warn
HandleDefault(m) ==
  UNCHANGED <<promise, removed, taskQueue, isWorkerBusy, currentTaskId, inbox, sent>>

\* worker.onmessage -> handleWorkerMessage(event.data)
HandleWorkerMessage ==
  /\ worker # 0
  /\ outbox # << >>
  /\ outbox' = Tail(outbox)
  /\ LET m == Head(outbox)
     IN  CASE m.type = "OCR_PROGRESS" ->
                UNCHANGED <<promise, removed, taskQueue, isWorkerBusy,
                            currentTaskId, inbox, sent>>
           [] m.type = "OCR_COMPLETE" -> HandleTerminal(m.id, "resolved")
           [] m.type = "OCR_ERROR" -> HandleTerminal(m.id, "OCR processing failed")
           [] OTHER -> HandleDefault(m)
  /\ UNCHANGED <<worker, tasksCreated, workersCreated, clock, wrkVars, terminals>>
  /\ UNCHANGED sideVars

\* the worker replaced without terminateWorker clearing the queue: the
\* other tasks stay queued and the oldest is posted to the new worker
CancelCurrentTask_keepsQueue ==
  /\ currentTaskId # 0
  /\ workersCreated < MaxWorkers
  /\ LET q == Delete(taskQueue, currentTaskId)
         r == ProcessNextTask(q, FALSE, 0)
     IN  /\ promise' = IF currentTaskId \in QueueIds(taskQueue)
                       THEN Settle(promise, currentTaskId, "Task cancelled")
                       ELSE promise
         /\ removed' = MarkRemoved(QueueIds(taskQueue) \cap {currentTaskId}, "cancel")
         /\ taskQueue' = q
         /\ isWorkerBusy' = r.busy
         /\ currentTaskId' = r.cur
         /\ sent' = IF r.post = 0 THEN sent ELSE [sent EXCEPT ![r.post] = @ + 1]
         /\ inbox' = IF r.post = 0
                     THEN <<Request("INITIALIZE", 0)>>
                     ELSE <<Request("INITIALIZE", 0), Request("OCR_PROCESS", r.post)>>
  /\ workersCreated' = workersCreated + 1
  /\ worker' = workersCreated + 1
  /\ FreshWorkerState
  /\ UNCHANGED <<tasksCreated, clock, terminals>>
  /\ UNCHANGED sideVars

\* cancelCurrentTask()
CancelCurrentTask ==
  /\ currentTaskId # 0
  /\ workersCreated < MaxWorkers
  /\ LET p == IF currentTaskId \in QueueIds(taskQueue)
              THEN Settle(promise, currentTaskId, "Task cancelled") ELSE promise
         q == Delete(taskQueue, currentTaskId)
     IN  /\ promise' = RejectEach(p, q, "Worker terminated")
         /\ removed' = MarkRemoved(QueueIds(taskQueue), "cancel")
  /\ taskQueue' = << >>
  /\ isWorkerBusy' = FALSE
  /\ currentTaskId' = 0
  /\ ReplaceWorker
  /\ UNCHANGED <<sent, tasksCreated, clock, terminals>>
  /\ UNCHANGED sideVars

\* the tasks rejected and the queue cleared, the worker left running
CancelAllTasks_keepsWorker ==
  /\ workersCreated < MaxWorkers
  /\ promise' = RejectEach(promise, taskQueue, "All tasks cancelled")
  /\ removed' = MarkRemoved(QueueIds(taskQueue), "cancel")
  /\ taskQueue' = << >>
  /\ isWorkerBusy' = FALSE
  /\ currentTaskId' = 0
  /\ UNCHANGED <<worker, workersCreated, inbox, outbox, wrkVars>>
  /\ UNCHANGED <<sent, tasksCreated, clock, terminals>>
  /\ UNCHANGED sideVars

\* cancelAllTasks()
CancelAllTasks ==
  /\ workersCreated < MaxWorkers
  /\ promise' = RejectEach(promise, taskQueue, "All tasks cancelled")
  /\ removed' = MarkRemoved(QueueIds(taskQueue), "cancel")
  /\ taskQueue' = << >>
  /\ isWorkerBusy' = FALSE
  /\ currentTaskId' = 0
  /\ ReplaceWorker
  /\ UNCHANGED <<sent, tasksCreated, clock, terminals>>
  /\ UNCHANGED sideVars

\* dispose(): terminateWorker (the listeners are not modelled)
Dispose ==
  /\ worker # 0
  /\ promise' = RejectEach(promise, taskQueue, "Worker terminated")
  /\ removed' = MarkRemoved(QueueIds(taskQueue), "cancel")
  /\ taskQueue' = << >>
  /\ isWorkerBusy' = FALSE
  /\ currentTaskId' = 0
  /\ worker' = 0
  /\ inbox' = << >>
  /\ FreshWorkerState
  /\ UNCHANGED <<sent, tasksCreated, workersCreated, clock, terminals>>
  /\ UNCHANGED sideVars

\* ======================================================================
Init ==
  /\ worker = 0
  /\ taskQueue = << >>
  /\ currentTaskId = 0
  /\ isWorkerBusy = FALSE
  /\ promise = [id \in JobIds |-> "none"]
  /\ sent = [id \in JobIds |-> 0]
  /\ removed = [id \in JobIds |-> "no"]
  /\ tasksCreated = 0
  /\ workersCreated = 0
  /\ clock = 0
  /\ inbox = << >>
  /\ outbox = << >>
  /\ acts = << >>
  /\ isInitialized = FALSE
  /\ layoutDetector = "null"
  /\ textRecognizer = "null"
  /\ terminals = [id \in JobIds |-> 0]
  /\ job = NoJob
  /\ call = NoCall
  /\ api = NoApi
  /\ loader = NoLoader

Next ==
  \/ InitializeWorker
  \/ ProcessOCR
  \/ HandleWorkerMessage
  \/ CancelCurrentTask
  \/ CancelAllTasks
  \/ Dispose
  \/ Receive
  \/ LoadLayoutModel
  \/ LoadRecognitionModel
  \/ InitLayoutDetector
  \/ InitTextRecognizer
  \/ DetectInference
  \/ RecognizeInference

Spec == Init /\ [][Next]_vars

\* The same program with a worker that keeps running and a page that keeps
\* dispatching its messages: every run of the worker's event loop that can
\* be taken is taken, and so is every call of worker.onmessage.
WorkerRuns ==
  \/ Receive
  \/ LoadLayoutModel
  \/ LoadRecognitionModel
  \/ InitLayoutDetector
  \/ InitTextRecognizer
  \/ DetectInference
  \/ RecognizeInference

SpecFair ==
  /\ Init
  /\ [][Next]_vars
  /\ WF_vars(WorkerRuns)
  /\ WF_vars(HandleWorkerMessage)

\* ------------------------------------------ messages of unknown type
\* The same program with messages of a type neither side has a case for:
\* one posted to the worker through sendMessage, one reaching
\* handleWorkerMessage with the id of the current task, each into an empty
\* channel and one at a time.  The controller has called initializeWorker() once;
\* a second initialization, cancellation and disposal are left out.
UnknownType == "UNKNOWN"

UnknownInit ==
  /\ worker = 1
  /\ taskQueue = << >>
  /\ currentTaskId = 0
  /\ isWorkerBusy = FALSE
  /\ promise = [id \in JobIds |-> "none"]
  /\ sent = [id \in JobIds |-> 0]
  /\ removed = [id \in JobIds |-> "no"]
  /\ tasksCreated = 0
  /\ workersCreated = 1
  /\ clock = 0
  /\ inbox = <<Request("INITIALIZE", 0)>>
  /\ outbox = << >>
  /\ acts = << >>
  /\ isInitialized = FALSE
  /\ layoutDetector = "null"
  /\ textRecognizer = "null"
  /\ terminals = [id \in JobIds |-> 0]
  /\ job = NoJob
  /\ call = NoCall
  /\ api = NoApi
  /\ loader = NoLoader

HoldsUnknown(box) == \E i \in 1..Len(box) : box[i].type = UnknownType

\* sendMessage(type, data) with an unknown type
SendUnknown ==
  /\ worker # 0
  /\ inbox = << >> /\ ~HoldsUnknown(outbox)
  /\ inbox' = Append(inbox, Request(UnknownType, 0))
  /\ UNCHANGED <<ctlVars, outbox, wrkVars, terminals>>
  /\ UNCHANGED sideVars

\* a message of unknown type is dispatched to worker.onmessage
ArriveUnknown ==
  /\ worker # 0
  /\ outbox = << >> /\ ~HoldsUnknown(inbox)
  /\ outbox' = Append(outbox, [type |-> UnknownType, id |-> currentTaskId,
                               stage |-> NoStage, progress |-> 0])
  /\ UNCHANGED <<ctlVars, inbox, wrkVars, terminals>>
  /\ UNCHANGED sideVars

UnknownNext ==
  \/ ProcessOCR
  \/ HandleWorkerMessage
  \/ Receive
  \/ LoadLayoutModel
  \/ LoadRecognitionModel
  \/ InitLayoutDetector
  \/ InitTextRecognizer
  \/ DetectInference
  \/ RecognizeInference
  \/ SendUnknown
  \/ ArriveUnknown

SpecUnknown == UnknownInit /\ [][UnknownNext]_vars

\* ======================================================================
\*           the functions of the pipeline stages, on their data
\* ======================================================================
\* Scores and confidences are kept in thousandths (0.3 is 300), means and
\* ratios as fractions compared by cross-multiplication.
Max(a, b) == IF a >= b THEN a ELSE b

Min(a, b) == IF a <= b THEN a ELSE b

Abs(a) == IF a >= 0 THEN a ELSE 0 - a

\* Math.round(n / d) for d > 0: the nearest integer, a half rounded up
Round(n, d) == (2 * n + d) \div (2 * d)

RECURSIVE Sum(_)
Sum(s) == IF s = << >> THEN 0 ELSE Head(s) + Sum(Tail(s))

RECURSIVE Flatten(_)
Flatten(ss) == IF ss = << >> THEN << >> ELSE Head(ss) \o Flatten(Tail(ss))

\* ------------------------------------------------ Array.prototype.sort
\* the comparators of the pipeline, each telling whether a goes before b
\* detections.sort((a, b) => b.confidence - a.confidence)
ByConfidence(a, b) == a.confidence > b.confidence

\* column.sort((a, b) => a.y - b.y)
TopFirst(a, b) == a.y < b.y

LeftFirst(a, b) == a.x < b.x

RightFirst(a, b) == a.x > b.x

\* the sum of twice the horizontal centers, and of the y, of a group's blocks
SumCenterX2(group) == Sum([i \in 1..Len(group) |-> 2 * group[i].x + group[i].width])

SumY(group) == Sum([i \in 1..Len(group) |-> group[i].y])

\* sortColumnsByDirection: avgXB - avgXA for right-to-left, avgXA - avgXB
\* otherwise
ColumnBefore(direction, a, b) ==
  IF direction = "right-to-left"
  THEN SumCenterX2(a) * Len(b) > SumCenterX2(b) * Len(a)
  ELSE SumCenterX2(a) * Len(b) < SumCenterX2(b) * Len(a)

\* avgYA - avgYB over block.y
LineBefore(a, b) == SumY(a) * Len(b) < SumY(b) * Len(a)

Before(order, a, b) ==
  CASE order = "confidence" -> ByConfidence(a, b)
    [] order = "top" -> TopFirst(a, b)
    [] order = "left" -> LeftFirst(a, b)
    [] order = "right" -> RightFirst(a, b)
    [] order = "lines" -> LineBefore(a, b)
    [] order = "columns right-to-left" -> ColumnBefore("right-to-left", a, b)
    [] order = "columns left-to-right" -> ColumnBefore("left-to-right", a, b)

\* the sort is stable: of two elements neither of which goes before the
\* other, the one that was first stays first
StableSort(s, order) ==
  LET rank(i) == Cardinality({j \in 1..Len(s) :
                    \/ Before(order, s[j], s[i])
                    \/ ~Before(order, s[i], s[j]) /\ j < i})
  IN  [k \in 1..Len(s) |-> s[CHOOSE i \in 1..Len(s) : rank(i) = k - 1]]

\* ------------------------------------- LayoutDetector (layout-detector.js)
inputSize == 1024

ScoreThreshold == 300

MinBoxSize == 10

NMSThreshold == 500

\* calculateIoU: interArea / (boxAArea + boxBArea - interArea) as a fraction;
\* the division of 0 by 0 gives NaN
calculateIoU(boxA, boxB) ==
  LET xA == Max(boxA.x, boxB.x)
      yA == Max(boxA.y, boxB.y)
      xB == Min(boxA.x + boxA.width, boxB.x + boxB.width)
      yB == Min(boxA.y + boxA.height, boxB.y + boxB.height)
      interArea == Max(0, xB - xA) * Max(0, yB - yA)
      boxAArea == boxA.width * boxA.height
      boxBArea == boxB.width * boxB.height
  IN  [num |-> interArea, den |-> boxAArea + boxBArea - interArea]

\* iou > iouThreshold (false for NaN)
IoUExceeds(iou, iouThreshold) ==
  iou.den > 0 /\ iou.num * 1000 > iouThreshold * iou.den

\* the loop without its first 'continue': a suppressed box is not kept but
\* suppresses the boxes after it
RECURSIVE NMSLoop_chained(_, _, _, _, _)
NMSLoop_chained(d, iouThreshold, i, keep, suppressed) ==
  IF i > Len(d) THEN keep
  ELSE NMSLoop_chained(d, iouThreshold, i + 1,
                       IF i \in suppressed THEN keep ELSE Append(keep, d[i]),
                       suppressed \cup
                         {j \in (i + 1)..Len(d) :
                            /\ j \notin suppressed
                            /\ IoUExceeds(calculateIoU(d[i], d[j]), iouThreshold)})

\* the loop of applyNMS over the sorted list from index i on
RECURSIVE NMSLoop(_, _, _, _, _)
NMSLoop(d, iouThreshold, i, keep, suppressed) ==
  IF i > Len(d) THEN keep
  ELSE IF i \in suppressed
  THEN NMSLoop(d, iouThreshold, i + 1, keep, suppressed)
  ELSE NMSLoop(d, iouThreshold, i + 1, Append(keep, d[i]),
               suppressed \cup
                 {j \in (i + 1)..Len(d) :
                    /\ j \notin suppressed
                    /\ IoUExceeds(calculateIoU(d[i], d[j]), iouThreshold)})

\* the loop over the list as given
applyNMS_unsorted(detections, iouThreshold) ==
  IF Len(detections) = 0 THEN << >>
  ELSE NMSLoop(detections, iouThreshold, 1, << >>, {})

\* no box suppressed
applyNMS_keepsAll(detections, iouThreshold) ==
  StableSort(detections, "confidence")

applyNMS(detections, iouThreshold) ==
  IF Len(detections) = 0 THEN << >>
  ELSE NMSLoop(StableSort(detections, "confidence"), iouThreshold, 1, << >>, {})

\* A raw output of session.run: keys is Object.keys(output), tensor the data
\* and dims of each.  The tensors modelled hold a value at every index the
\* loops below read, but for the class id of the generic form.
HasKey(output, k) == \E i \in 1..Len(output.keys) : output.keys[i] = k

\* outputData[k] || 0 (k counted from 0)
AtOrZero(data, k) == IF k + 1 <= Len(data) THEN data[k + 1] ELSE 0

\* the generic form: rows of numValues values, five taken from each
GenericDets(outputTensor) ==
  LET numDetections == outputTensor.dims[1]
      numValues == outputTensor.dims[2]
  IN  Flatten([i \in 1..numDetections |->
                 [j \in 1..5 |-> outputTensor.data[(i - 1) * numValues + j]]])

GenericLabels(outputTensor) ==
  LET numDetections == outputTensor.dims[1]
      numValues == outputTensor.dims[2]
  IN  [i \in 1..numDetections |->
         AtOrZero(outputTensor.data, (i - 1) * numValues + 5)]

\* the loop body with the 2% added above and below the clipped box
Detection_clipsFirst(detsData, labelsData, metadata, i) ==
  LET x1 == detsData[i * 5 + 1]
      y1 == detsData[i * 5 + 2]
      x2 == detsData[i * 5 + 3]
      y2 == detsData[i * 5 + 4]
      score == detsData[i * 5 + 5]
      squareSize == metadata.maxWH
      deltaH == Round(2 * (y2 - y1) * squareSize, 100 * inputSize)
      finalX1 == Max(0, Round(x1 * squareSize, inputSize))
      finalY1 == Max(0, Round(y1 * squareSize, inputSize)) - deltaH
      finalX2 == Min(metadata.originalWidth, Round(x2 * squareSize, inputSize))
      finalY2 == Min(metadata.originalHeight,
                     Round(y2 * squareSize, inputSize)) + deltaH
      width == finalX2 - finalX1
      height == finalY2 - finalY1
  IN  IF score < ScoreThreshold THEN << >>
      ELSE IF width < MinBoxSize \/ height < MinBoxSize THEN << >>
      ELSE << [x |-> finalX1, y |-> finalY1, width |-> width, height |-> height,
               confidence |-> score, classId |-> labelsData[i + 1]] >>

\* the body of the loop of postprocessOutput for detection i (from 0):
\* the empty sequence when the detection is filtered out
Detection(detsData, labelsData, metadata, i) ==
  LET x1 == detsData[i * 5 + 1]
      y1 == detsData[i * 5 + 2]
      x2 == detsData[i * 5 + 3]
      y2 == detsData[i * 5 + 4]
      score == detsData[i * 5 + 5]
      squareSize == metadata.maxWH
      finalX1 == Max(0, Round(x1 * squareSize, inputSize))
      finalY1 == Max(0, Round((100 * y1 - 2 * (y2 - y1)) * squareSize,
                              100 * inputSize))
      finalX2 == Min(metadata.originalWidth, Round(x2 * squareSize, inputSize))
      finalY2 == Min(metadata.originalHeight,
                     Round((100 * y2 + 2 * (y2 - y1)) * squareSize,
                           100 * inputSize))
      width == finalX2 - finalX1
      height == finalY2 - finalY1
  IN  IF score < ScoreThreshold THEN << >>
      ELSE IF width < MinBoxSize \/ height < MinBoxSize THEN << >>
      ELSE << [x |-> finalX1, y |-> finalY1, width |-> width, height |-> height,
               confidence |-> score, classId |-> labelsData[i + 1]] >>

\* postprocessOutput: an exception inside the try block gives the empty list
postprocessOutput(output, metadata) ==
  IF ~(HasKey(output, "dets") /\ HasKey(output, "labels")) /\ output.keys = << >>
  THEN << >>
  ELSE LET named == HasKey(output, "dets") /\ HasKey(output, "labels")
           detsData == IF named THEN output.tensor["dets"].data
                       ELSE GenericDets(output.tensor[output.keys[1]])
           labelsData == IF named THEN output.tensor["labels"].data
                         ELSE GenericLabels(output.tensor[output.keys[1]])
           numDetections == Len(detsData) \div 5
           detections == Flatten([i \in 1..numDetections |->
                           Detection(detsData, labelsData, metadata, i - 1)])
       IN  applyNMS(detections, NMSThreshold)

\* ------------------------------------- TextRecognizer (text-recognizer.js)
\* scores.indexOf(Math.max(...scores)) for position i (from 0) of the
\* logits, an index from 0
ArgMax(logits, vocabSize, i) ==
  LET scores == [j \in 1..vocabSize |-> logits[i * vocabSize + j]]
      maxScore == CHOOSE m \in {scores[j] : j \in 1..vocabSize} :
                    \A j \in 1..vocabSize : scores[j] <= m
  IN  (CHOOSE j \in 1..vocabSize :
         scores[j] = maxScore /\ \A h \in 1..(j - 1) : scores[h] # maxScore) - 1

\* the scan going on after an arg-max of 0, the position skipped
RECURSIVE ScanFrom_noBreak(_, _, _, _, _)
ScanFrom_noBreak(logits, seqLength, vocabSize, i, resultClassIds) ==
  IF i >= seqLength THEN resultClassIds
  ELSE LET maxIndex == ArgMax(logits, vocabSize, i)
       IN  IF maxIndex < 4
           THEN ScanFrom_noBreak(logits, seqLength, vocabSize, i + 1, resultClassIds)
           ELSE ScanFrom_noBreak(logits, seqLength, vocabSize, i + 1,
                                 Append(resultClassIds, maxIndex - 1))

\* the scan without its 'continue': a control symbol is appended like a
\* character
RECURSIVE ScanFrom_noSkip(_, _, _, _, _)
ScanFrom_noSkip(logits, seqLength, vocabSize, i, resultClassIds) ==
  IF i >= seqLength THEN resultClassIds
  ELSE LET maxIndex == ArgMax(logits, vocabSize, i)
       IN  IF maxIndex = 0 THEN resultClassIds
           ELSE ScanFrom_noSkip(logits, seqLength, vocabSize, i + 1,
                                Append(resultClassIds, maxIndex - 1))

\* the scan of postprocess from position i on: resultClassIds
RECURSIVE ScanFrom(_, _, _, _, _)
ScanFrom(logits, seqLength, vocabSize, i, resultClassIds) ==
  IF i >= seqLength THEN resultClassIds
  ELSE LET maxIndex == ArgMax(logits, vocabSize, i)
       IN  IF maxIndex = 0 THEN resultClassIds
           ELSE IF maxIndex < 4
           THEN ScanFrom(logits, seqLength, vocabSize, i + 1, resultClassIds)
           ELSE ScanFrom(logits, seqLength, vocabSize, i + 1,
                         Append(resultClassIds, maxIndex - 1))

resultClassIds(outputs) ==
  ScanFrom(outputs.data, outputs.dims[2], outputs.dims[3], 0, << >>)

\* every class id kept
Collapse_keepsAll(classIds, prevClassId) == classIds

\* the second loop of postprocess: the class ids pushed to resultText
RECURSIVE Collapse(_, _)
Collapse(classIds, prevClassId) ==
  IF classIds = << >> THEN << >>
  ELSE IF Head(classIds) # prevClassId
  THEN <<Head(classIds)>> \o Collapse(Tail(classIds), Head(classIds))
  ELSE Collapse(Tail(classIds), prevClassId)

\* this.config.charList[classId]; join('') writes undefined as ''
CharAt(charList, classId) ==
  IF classId + 1 <= Len(charList) THEN charList[classId + 1] ELSE ""

RECURSIVE Join(_, _)
Join(s, sep) ==
  IF s = << >> THEN ""
  ELSE IF Len(s) = 1 THEN Head(s)
  ELSE Head(s) \o sep \o Join(Tail(s), sep)

postprocess(outputs, charList) ==
  LET ids == Collapse(resultClassIds(outputs), -1)
  IN  Join([k \in 1..Len(ids) |-> CharAt(charList, ids[k])], "")

\* String.prototype.trim on the texts modelled, which hold white space only
\* when they are one blank
Trim(t) == IF t = " " THEN "" ELSE t

\* decodeOutput (0.9 is the fixed confidence)
decodeOutput(output, charList) ==
  [text |-> Trim(postprocess(output, charList)), confidence |-> 900]

\* ------------------------------- ReadingOrderProcessor (reading-order.js)
Opt(options, k, default) == IF k \in DOMAIN options THEN options[k] ELSE default

\* twice the horizontal and the vertical center of a block
CenterX2(b) == 2 * b.x + b.width

CenterY2(b) == 2 * b.y + b.height

Center2(b, axis) == IF axis = "x" THEN CenterX2(b) ELSE CenterY2(b)

\* the distance taken to the group's first block instead of its mean
Near_firstBlock(b, group, threshold, axis) ==
  Abs(Center2(b, axis) - Center2(group[1], axis)) <= 2 * threshold

\* Math.abs(center - mean of the group's centers) <= threshold
Near(b, group, threshold, axis) ==
  Abs(Center2(b, axis) * Len(group)
        - Sum([i \in 1..Len(group) |-> Center2(group[i], axis)]))
    <= 2 * threshold * Len(group)

\* the group a block joins: the first one near it, or a new one
RECURSIVE GroupFrom(_, _, _, _)
GroupFrom(blocks, groups, threshold, axis) ==
  IF blocks = << >> THEN groups
  ELSE LET b == Head(blocks)
           near == {g \in 1..Len(groups) : Near(b, groups[g], threshold, axis)}
       IN  IF near = {}
           THEN GroupFrom(Tail(blocks), Append(groups, <<b>>), threshold, axis)
           ELSE LET g == CHOOSE g \in near : \A h \in near : g <= h
                IN  GroupFrom(Tail(blocks),
                              [groups EXCEPT ![g] = Append(@, b)], threshold, axis)

\* the blocks clustered from left to right, whatever their input order
groupIntoColumns_leftFirst(blocks, threshold) ==
  GroupFrom(StableSort(blocks, "left"), << >>, threshold, "x")

groupIntoColumns(blocks, threshold) == GroupFrom(blocks, << >>, threshold, "x")

groupIntoLines(blocks, threshold) == GroupFrom(blocks, << >>, threshold, "y")

\* the columns left in the order of their first blocks
sortColumnsByDirection_unsorted(columns, direction) == columns

sortColumnsByDirection(columns, direction) ==
  StableSort(columns, IF direction = "right-to-left"
                      THEN "columns right-to-left" ELSE "columns left-to-right")

processVerticalReading(blocks, columnDirection, groupThreshold) ==
  LET columns == groupIntoColumns(blocks, groupThreshold)
      sortedColumns == sortColumnsByDirection(columns, columnDirection)
  IN  Flatten([c \in 1..Len(sortedColumns) |->
                 StableSort(sortedColumns[c], "top")])

processHorizontalReading(blocks, columnDirection, groupThreshold) ==
  LET lines == groupIntoLines(blocks, groupThreshold)
      sortedLines == StableSort(lines, "lines")
  IN  Flatten([l \in 1..Len(sortedLines) |->
                 IF columnDirection = "left-to-right"
                 THEN StableSort(sortedLines[l], "left")
                 ELSE StableSort(sortedLines[l], "right")])

\* the filter on the confidence alone
IsValidBlock_anyText(block, minConfidence) ==
  block.confidence >= minConfidence

\* the filter of process: confidence and a non-blank text
IsValidBlock(block, minConfidence) ==
  /\ block.confidence >= minConfidence
  /\ block.text.text # ""
  /\ Trim(block.text.text) # ""

\* readingOrder: index + 1 left out, every block numbered 1
Numbered_allOne(blocks) ==
  [k \in 1..Len(blocks) |->
     [f \in DOMAIN blocks[k] \cup {"readingOrder"} |->
        IF f = "readingOrder" THEN 1 ELSE blocks[k][f]]]

Numbered(blocks) ==
  [k \in 1..Len(blocks) |->
     [f \in DOMAIN blocks[k] \cup {"readingOrder"} |->
        IF f = "readingOrder" THEN k ELSE blocks[k][f]]]

\* process(textBlocks, options): args holds the arguments given, textBlocks
\* absent for null and options absent for the default {}
process(args) ==
  IF "textBlocks" \notin DOMAIN args THEN << >>
  ELSE IF Len(args.textBlocks) = 0 THEN << >>
  ELSE LET options == Opt(args, "options", << >>)
           readingDirection == Opt(options, "readingDirection", "vertical")
           columnDirection == Opt(options, "columnDirection", "right-to-left")
           groupThreshold == Opt(options, "groupThreshold", 20)
           minConfidence == Opt(options, "minConfidence", 100)
           validBlocks == SelectSeq(args.textBlocks,
                                    LAMBDA b : IsValidBlock(b, minConfidence))
       IN  IF Len(validBlocks) = 0 THEN << >>
           ELSE IF readingDirection = "vertical"
           THEN Numbered(processVerticalReading(validBlocks, columnDirection,
                                                groupThreshold))
           ELSE Numbered(processHorizontalReading(validBlocks, columnDirection,
                                                  groupThreshold))

\* ======================================================================
\*        one call of OCRWorker.processOCR with its data (SpecJob)
\* ======================================================================
\* The worker is initialized.  job.output is what the detector's session
\* returns for the image and job.reads what the recognizer's decoding gives
\* for the k-th region: a text, or "fail" when cropping, preprocessing,
\* inference or decoding throws.
MaxDetections == 2

Formats == {"txt", "json", "xml"}

Texts == {"", "A", "B"}

Outcomes == Texts \cup {"fail"}

\* config of the request: outputFormats and readingOrder may be absent
ConfigFormats ==
  { << >> } \cup
  { [outputFormats |-> f] : f \in { {}, {"txt"}, {"json", "xml"}, Formats } }

ConfigOrders ==
  { << >> } \cup
  { [readingOrder |-> [direction |-> d, columnDirection |-> c]] :
      d \in {"vertical", "horizontal"}, c \in {"right-to-left", "left-to-right"} }

Merge(f, g) == [k \in DOMAIN f \cup DOMAIN g |-> IF k \in DOMAIN f THEN f[k] ELSE g[k]]

Configs == { Merge(f, o) : f \in ConfigFormats, o \in ConfigOrders }

\* rows x1, y1, x2, y2, score of the detection network, in input-space pixels
BoxA == <<0, 0, 50, 50, 900>>
BoxB == <<200, 60, 250, 110, 800>>
BoxNearA == <<2, 2, 52, 52, 700>>
BoxFaint == <<300, 300, 400, 400, 100>>

Tensor(data, dims) == [data |-> data, dims |-> dims]

\* the two forms postprocessOutput reads: 'dets' [1,N,5] with 'labels' [1,N],
\* and one tensor [N,6] under any name
NamedOutput(boxes) ==
  [keys |-> <<"dets", "labels">>,
   tensor |-> [dets |-> Tensor(Flatten(boxes), <<1, Len(boxes), 5>>),
               labels |-> Tensor([i \in 1..Len(boxes) |-> 0], <<1, Len(boxes)>>)]]

GenericOutput(boxes) ==
  [keys |-> <<"output">>,
   tensor |-> [output |-> Tensor(Flatten([i \in 1..Len(boxes) |-> Append(boxes[i], 0)]),
                                 <<Len(boxes), 6>>)]]

\* outputs of other forms: no tensor at all, 'dets' without 'labels', and one
\* tensor of three dimensions
EmptyOutput == [keys |-> << >>, tensor |-> << >>]

DetsOnlyOutput(boxes) ==
  [keys |-> <<"dets">>,
   tensor |-> [dets |-> Tensor(Flatten(boxes), <<1, Len(boxes), 5>>)]]

BatchedOutput(boxes) ==
  [keys |-> <<"boxes">>,
   tensor |-> [boxes |-> Tensor(Flatten([i \in 1..Len(boxes) |-> Append(boxes[i], 0)]),
                                <<1, Len(boxes), 6>>)]]

RawOutputs ==
  { NamedOutput(<<BoxA, BoxB>>), NamedOutput(<<BoxA, BoxNearA, BoxFaint>>),
    NamedOutput(<< >>), GenericOutput(<<BoxB, BoxA>>), EmptyOutput,
    DetsOnlyOutput(<<BoxA, BoxB>>), BatchedOutput(<<BoxA, BoxB>>) }

\* preprocessImage's metadata for an image of 1024 x 1024 pixels
Metadata == [originalWidth |-> 1024, originalHeight |-> 1024, maxWH |-> 1024]

\* what recognize() returns for a region: its catch block turns a failure
\* into an empty text of confidence 0
RecognitionResult(outcome) ==
  IF outcome = "fail"
  THEN [text |-> "", confidence |-> 0, error |-> "failed"]
  ELSE [text |-> Trim(outcome), confidence |-> 900, rawPredictions |-> << >>]

\* { ...region, text, confidence: text.confidence || 0.0 }
RegionResult(region, text) ==
  [f \in DOMAIN region \cup {"text", "confidence"} |->
     IF f = "text" THEN text
     ELSE IF f = "confidence" THEN text.confidence
     ELSE region[f]]

\* the filter (r) => r.text, true of every result, would be
HasText_anyResult(b) == DOMAIN b.text # {}

HasText(b) == b.text.text # ""

BlockText(b) == b.text.text

generateTextOutput(textBlocks) ==
  LET shown == SelectSeq(textBlocks, HasText)
  IN  Join([k \in 1..Len(shown) |-> BlockText(shown[k])], "\n")

generateJSONOutput(textBlocks) ==
  [k \in 1..Len(textBlocks) |->
     [id |-> k - 1, x |-> textBlocks[k].x, y |-> textBlocks[k].y,
      width |-> textBlocks[k].width, height |-> textBlocks[k].height,
      confidence |-> textBlocks[k].confidence, text |-> BlockText(textBlocks[k])]]

generateXMLOutput(textBlocks) ==
  [k \in 1..Len(textBlocks) |->
     [textblock |-> k - 1, x |-> textBlocks[k].x, y |-> textBlocks[k].y,
      width |-> textBlocks[k].width, height |-> textBlocks[k].height,
      confidence |-> textBlocks[k].confidence, text |-> BlockText(textBlocks[k])]]

\* the serialized forms added to the result
OutputFields(config, orderedResults) ==
  LET asked == IF "outputFormats" \in DOMAIN config THEN config.outputFormats ELSE {}
  IN  [f \in asked \cap Formats |->
         CASE f = "xml" -> generateXMLOutput(orderedResults)
           [] f = "json" -> generateJSONOutput(orderedResults)
           [] f = "txt" -> generateTextOutput(orderedResults)]

\* stages 3 and 4 of processOCR: the result of OCR_COMPLETE
Result(config, textRegions, recognitionResults) ==
  LET orderedResults == process([textBlocks |-> recognitionResults])
  IN  Merge([textBlocks |-> orderedResults,
             totalRegions |-> Len(textRegions),
             successfulRecognitions |-> Len(SelectSeq(recognitionResults, HasText))],
            OutputFields(config, orderedResults))

JobInit ==
  /\ worker = 1
  /\ taskQueue = << >>
  /\ currentTaskId = 0
  /\ isWorkerBusy = FALSE
  /\ promise = [id \in JobIds |-> "none"]
  /\ sent = [id \in JobIds |-> 0]
  /\ removed = [id \in JobIds |-> "no"]
  /\ tasksCreated = 0
  /\ workersCreated = 1
  /\ clock = 0
  /\ inbox = << >>
  /\ outbox = << >>
  /\ acts = << >>
  /\ isInitialized = TRUE
  /\ layoutDetector = "initialized"
  /\ textRecognizer = "initialized"
  /\ terminals = [id \in JobIds |-> 0]
  /\ call = NoCall
  /\ api = NoApi
  /\ loader = NoLoader
  /\ \E c \in Configs, o \in RawOutputs, r \in [1..MaxDetections -> Outcomes] :
       job = [pc |-> "detect", config |-> c, output |-> o, reads |-> r,
              detected |-> FALSE, textRegions |-> << >>,
              recognitionResults |-> << >>, result |-> << >>, message |-> "none"]

jobFrame == <<ctlVars, inbox, outbox, wrkVars, terminals, call, api, loader>>

\* stage 1: detect() throws (preprocessing or inference fails), or returns
\* the detections of postprocessOutput
JobDetect ==
  /\ job.pc = "detect"
  /\ \/ job' = [job EXCEPT !.pc = "done", !.message = "OCR_ERROR"]
     \/ job' = [job EXCEPT !.pc = "recognize", !.detected = TRUE,
                           !.textRegions = postprocessOutput(job.output, Metadata)]
  /\ UNCHANGED jobFrame

\* a failed recognition thrown on to processOCR's catch block
JobRecognize_rethrows ==
  /\ job.pc = "recognize"
  /\ Len(job.recognitionResults) < Len(job.textRegions)
  /\ LET i == Len(job.recognitionResults)
         text == RecognitionResult(job.reads[i + 1])
     IN  job' = IF job.reads[i + 1] = "fail"
                THEN [job EXCEPT !.pc = "done", !.message = "OCR_ERROR"]
                ELSE [job EXCEPT !.recognitionResults =
                                   Append(@, RegionResult(job.textRegions[i + 1], text))]
  /\ UNCHANGED jobFrame

\* stage 2: one turn of the loop over textRegions
JobRecognize ==
  /\ job.pc = "recognize"
  /\ Len(job.recognitionResults) < Len(job.textRegions)
  /\ LET i == Len(job.recognitionResults)
         text == RecognitionResult(job.reads[i + 1])
     IN  job' = [job EXCEPT !.recognitionResults =
                              Append(@, RegionResult(job.textRegions[i + 1], text))]
  /\ UNCHANGED jobFrame

\* stages 3 and 4, then OCR_COMPLETE
JobComplete ==
  /\ job.pc = "recognize"
  /\ Len(job.recognitionResults) = Len(job.textRegions)
  /\ job' = [job EXCEPT !.pc = "done", !.message = "OCR_COMPLETE",
                        !.result = Result(job.config, job.textRegions,
                                          job.recognitionResults)]
  /\ UNCHANGED jobFrame

JobNext == JobDetect \/ JobRecognize \/ JobComplete

SpecJob == JobInit /\ [][JobNext]_vars

\* ======================================================================
\*          NDLKotenOCR (main.js) with its own worker (SpecApi)
\* ======================================================================
\* worker is here the instance's this.worker.  api.init is the promise of
\* the call of initialize() made by the user, api.image that of the call of
\* processImage(), api.timer the call whose 30 s timer is running, and
\* api.errors the number of OCR_ERROR messages the worker has delivered.
\* processImage is called with no initialize() in flight, and the timer
\* fires only after the worker has come to rest and every message it posted
\* has been delivered.
ProcessId == 1

ApiInit ==
  /\ worker = 0
  /\ taskQueue = << >>
  /\ currentTaskId = 0
  /\ isWorkerBusy = FALSE
  /\ promise = [id \in JobIds |-> "none"]
  /\ sent = [id \in JobIds |-> 0]
  /\ removed = [id \in JobIds |-> "no"]
  /\ tasksCreated = 0
  /\ workersCreated = 0
  /\ clock = 0
  /\ inbox = << >>
  /\ outbox = << >>
  /\ acts = << >>
  /\ isInitialized = FALSE
  /\ layoutDetector = "null"
  /\ textRecognizer = "null"
  /\ terminals = [id \in JobIds |-> 0]
  /\ job = NoJob
  /\ call = NoCall
  /\ loader = NoLoader
  /\ api = [initialized |-> FALSE, init |-> "none", image |-> "none",
            timer |-> "none", errors |-> 0]

apiFrame == <<taskQueue, currentTaskId, isWorkerBusy, promise, sent, removed,
              tasksCreated, clock, job, call, loader>>

\* the body of initialize() after the guard: new Worker, the handlers and
\* the timer set, INITIALIZE posted
ApiNewWorker ==
  /\ workersCreated < MaxWorkers
  /\ ReplaceWorker
  /\ UNCHANGED <<terminals, apiFrame>>

\* initialize() called by the user
ApiInitialize ==
  /\ api.init = "none"
  /\ api.timer = "none"
  /\ IF api.initialized
     THEN /\ api' = [api EXCEPT !.init = "resolved"]
          /\ UNCHANGED <<worker, workersCreated, inbox, outbox, wrkVars,
                         terminals, apiFrame>>
     ELSE /\ ApiNewWorker
          /\ api' = [api EXCEPT !.init = "pending", !.timer = "init"]

\* processImage() called by the user: it awaits initialize() first when the
\* instance is not initialized, else it posts OCR_PROCESS
ApiProcessImage ==
  /\ api.image = "none"
  /\ api.timer = "none"
  /\ IF api.initialized
     THEN /\ api' = [api EXCEPT !.image = "pending"]
          /\ inbox' = Append(inbox, Request("OCR_PROCESS", ProcessId))
          /\ UNCHANGED <<worker, workersCreated, outbox, wrkVars, terminals,
                         apiFrame>>
     ELSE /\ ApiNewWorker
          /\ api' = [api EXCEPT !.image = "initializing", !.timer = "image"]

\* the promise of the initialize() whose timer is running resolves
ApiReady(a) ==
  [a EXCEPT !.initialized = TRUE, !.timer = "none",
            !.init = IF a.timer = "init" THEN "resolved" ELSE @,
            !.image = IF a.timer = "image" THEN "pending" ELSE @]

\* the promise of the initialize() whose timer is running is rejected
ApiFailed(a) ==
  [a EXCEPT !.timer = "none",
            !.init = IF a.timer = "init" THEN "rejected" ELSE @,
            !.image = IF a.timer = "image" THEN "rejected" ELSE @]

\* the handlers of the worker's messages: worker.onmessage, set by
\* initialize(), and the listener of processImage()
ApiOnMessage ==
  /\ worker # 0
  /\ outbox # << >>
  /\ outbox' = Tail(outbox)
  /\ LET m == Head(outbox)
         a == IF m.type = "OCR_ERROR" THEN [api EXCEPT !.errors = @ + 1] ELSE api
     IN  CASE m.type = "WORKER_READY" ->
                /\ api' = ApiReady(a)
                /\ inbox' = IF a.timer = "image"
                            THEN Append(inbox, Request("OCR_PROCESS", ProcessId))
                            ELSE inbox
           [] m.type = "WORKER_ERROR" ->
                /\ api' = ApiFailed(a)
                /\ UNCHANGED inbox
           [] m.type = "OCR_COMPLETE" /\ m.id = ProcessId /\ a.image = "pending" ->
                /\ api' = [a EXCEPT !.image = "resolved"]
                /\ UNCHANGED inbox
           [] m.type = "OCR_ERROR" /\ m.id = ProcessId /\ a.image = "pending" ->
                /\ api' = [a EXCEPT !.image = "rejected"]
                /\ UNCHANGED inbox
           [] OTHER ->
                /\ api' = a
                /\ UNCHANGED inbox
  /\ UNCHANGED <<worker, workersCreated, wrkVars, terminals, apiFrame>>

\* the timer of initialize() fires: 'Worker initialization timeout'
ApiTimeout ==
  /\ api.timer # "none"
  /\ inbox = << >> /\ outbox = << >> /\ Running = << >>
  /\ api' = [api EXCEPT !.timer = "none",
                        !.init = IF api.timer = "init" THEN "timeout" ELSE @,
                        !.image = IF api.timer = "image" THEN "timeout" ELSE @]
  /\ UNCHANGED <<worker, workersCreated, inbox, outbox, wrkVars, terminals,
                 apiFrame>>

\* terminate()
ApiTerminate ==
  /\ worker # 0
  /\ worker' = 0
  /\ inbox' = << >>
  /\ FreshWorkerState
  /\ api' = [api EXCEPT !.initialized = FALSE]
  /\ UNCHANGED <<workersCreated, terminals, apiFrame>>

\* the worker's event loop
ApiWorker ==
  \/ Receive
  \/ LoadLayoutModel
  \/ LoadRecognitionModel
  \/ InitLayoutDetector
  \/ InitTextRecognizer

ApiNext ==
  \/ ApiInitialize
  \/ ApiProcessImage
  \/ ApiOnMessage
  \/ ApiTimeout
  \/ ApiTerminate
  \/ Receive
  \/ LoadLayoutModel
  \/ LoadRecognitionModel
  \/ InitLayoutDetector
  \/ InitTextRecognizer

\* the worker's event loop runs, messages are delivered and timers fire
SpecApi ==
  /\ ApiInit
  /\ [][ApiNext]_vars
  /\ WF_vars(ApiWorker)
  /\ WF_vars(ApiOnMessage)
  /\ WF_vars(ApiTimeout)

\* ======================================================================
\*        single calls of the stage functions on bounded inputs
\* ======================================================================
\* call holds one call of a function: its arguments, then what it returned.
\* Nothing else of the program moves in these specifications.
restVars == <<ctlVars, inbox, outbox, wrkVars, terminals, job, api, loader>>

RestInit ==
  /\ worker = 0
  /\ taskQueue = << >>
  /\ currentTaskId = 0
  /\ isWorkerBusy = FALSE
  /\ promise = [id \in JobIds |-> "none"]
  /\ sent = [id \in JobIds |-> 0]
  /\ removed = [id \in JobIds |-> "no"]
  /\ tasksCreated = 0
  /\ workersCreated = 0
  /\ clock = 0
  /\ inbox = << >>
  /\ outbox = << >>
  /\ acts = << >>
  /\ isInitialized = FALSE
  /\ layoutDetector = "null"
  /\ textRecognizer = "null"
  /\ terminals = [id \in JobIds |-> 0]
  /\ job = NoJob
  /\ api = NoApi

\* the sequences over S of length up to n
SeqUpTo(S, n) == UNION { [1..k -> S] : k \in 0..n }

\* --------------------------------------- ReadingOrderProcessor.process
MaxBlocks == 3

TextBlock(x, y, confidence, text) ==
  [x |-> x, y |-> y, width |-> 50, height |-> 50, confidence |-> confidence,
   text |-> [text |-> text, confidence |-> confidence]]

BlockA == TextBlock(0, 0, 900, "A")
BlockB == TextBlock(0, 60, 900, "B")
BlockC == TextBlock(200, 0, 900, "C")
BlockD == TextBlock(10, 30, 900, "D")
BlockE == TextBlock(190, 60, 900, "E")
\* blocks the filter drops: low confidence, blank text, no text
BlockFaint == TextBlock(0, 0, 50, "F")
BlockBlank == TextBlock(200, 0, 900, " ")
BlockEmpty == TextBlock(0, 60, 900, "")

TextBlocks ==
  {BlockA, BlockB, BlockC, BlockD, BlockE, BlockFaint, BlockBlank, BlockEmpty}

\* minConfidence 0.05 lets BlockFaint pass
OrderOptions ==
  { Merge(Merge(r, c), m) :
      r \in { << >> } \cup { [readingDirection |-> d] : d \in {"vertical", "horizontal"} },
      c \in { << >> } \cup { [columnDirection |-> d] :
                               d \in {"right-to-left", "left-to-right"} },
      m \in { << >>, [minConfidence |-> 50] } }

\* process(textBlocks, options), process(textBlocks) and process(null, options)
ProcessArgs ==
  { [textBlocks |-> b, options |-> o] :
      b \in SeqUpTo(TextBlocks, MaxBlocks), o \in OrderOptions }
  \cup { [textBlocks |-> b] : b \in SeqUpTo(TextBlocks, MaxBlocks) }
  \cup { [options |-> o] : o \in OrderOptions }

OrderInit ==
  /\ RestInit
  /\ loader = NoLoader
  /\ \E a \in ProcessArgs : call = [fn |-> "process", pc |-> "called", args |-> a]

\* the call returns; txt is the text form processOCR makes of the list
CallProcess ==
  /\ call.fn = "process" /\ call.pc = "called"
  /\ call' = [fn |-> "process", pc |-> "returned", args |-> call.args,
              ret |-> process(call.args),
              txt |-> generateTextOutput(process(call.args))]
  /\ UNCHANGED restVars

OrderNext == CallProcess

SpecOrder == OrderInit /\ [][OrderNext]_vars

\* ------------------------- ReadingOrderProcessor.groupIntoColumns
MaxColumnBlocks == 4

\* a block of width 20 with the horizontal center given
ColumnBlock(centerX) ==
  [x |-> centerX - 10, y |-> 0, width |-> 20, height |-> 50, confidence |-> 900,
   text |-> [text |-> "A", confidence |-> 900]]

ColumnCenters == {10, 12, 30, 31, 50, 200, 600}

ColumnArgs ==
  { [blocks |-> b, threshold |-> 20, direction |-> d] :
      b \in SeqUpTo({ColumnBlock(c) : c \in ColumnCenters}, MaxColumnBlocks),
      d \in {"right-to-left", "left-to-right"} }

ColumnsInit ==
  /\ RestInit
  /\ loader = NoLoader
  /\ \E a \in ColumnArgs :
       call = [fn |-> "groupIntoColumns", pc |-> "called", args |-> a]

\* processVerticalReading calls groupIntoColumns, then sortColumnsByDirection
\* on the columns returned
CallGroupIntoColumns ==
  /\ call.fn = "groupIntoColumns" /\ call.pc = "called"
  /\ call' = [fn |-> "groupIntoColumns", pc |-> "grouped", args |-> call.args,
              ret |-> groupIntoColumns(call.args.blocks, call.args.threshold)]
  /\ UNCHANGED restVars

CallSortColumnsByDirection ==
  /\ call.fn = "groupIntoColumns" /\ call.pc = "grouped"
  /\ call' = [call EXCEPT !.pc = "sorted"] @@
              [sorted |-> sortColumnsByDirection(call.ret, call.args.direction)]
  /\ UNCHANGED restVars

ColumnsNext == CallGroupIntoColumns \/ CallSortColumnsByDirection

SpecColumns == ColumnsInit /\ [][ColumnsNext]_vars

\* ----------------------------------------------- LayoutDetector.applyNMS
MaxBoxes == 3

\* a detection as postprocessOutput builds it: no side under MinBoxSize
Det(x, y, confidence, classId) ==
  [x |-> x, y |-> y, width |-> 50, height |-> 50, confidence |-> confidence,
   classId |-> classId]

DetA == Det(0, 0, 900, 0)
\* over DetA: IoU 0.85, 1/3, 0, 1 (of equal confidence) and 1/3
DetNearA == Det(2, 2, 800, 0)
DetRightOfA == Det(25, 0, 700, 0)
DetFar == Det(200, 60, 850, 0)
DetOnA == Det(0, 0, 900, 1)
DetBelowA == Det(0, 25, 600, 0)
\* over DetA: IoU 0.47; over DetNearA: IoU 0.55
DetNearNearA == Det(10, 10, 750, 0)

Detections ==
  {DetA, DetNearA, DetRightOfA, DetFar, DetOnA, DetBelowA, DetNearNearA}

IoUThresholds == {NMSThreshold, 300}

NMSArgs ==
  { [detections |-> d, iouThreshold |-> t] :
      d \in SeqUpTo(Detections, MaxBoxes), t \in IoUThresholds }

NMSInit ==
  /\ RestInit
  /\ loader = NoLoader
  /\ \E a \in NMSArgs : call = [fn |-> "applyNMS", pc |-> "called", args |-> a]

CallApplyNMS ==
  /\ call.fn = "applyNMS" /\ call.pc = "called"
  /\ call' = [fn |-> "applyNMS", pc |-> "returned", args |-> call.args,
              ret |-> applyNMS(call.args.detections, call.args.iouThreshold)]
  /\ UNCHANGED restVars

NMSNext == CallApplyNMS

SpecNMS == NMSInit /\ [][NMSNext]_vars

\* ---------------- LayoutDetector.calculateIoU and calculateOverlap
\* ReadingOrderProcessor.calculateOverlap: overlapArea / unionArea as a
\* fraction, and 0 when unionArea is not positive
calculateOverlap(blockA, blockB) ==
  LET xOverlap == Max(0, Min(blockA.x + blockA.width, blockB.x + blockB.width)
                           - Max(blockA.x, blockB.x))
      yOverlap == Max(0, Min(blockA.y + blockA.height, blockB.y + blockB.height)
                           - Max(blockA.y, blockB.y))
      overlapArea == xOverlap * yOverlap
      unionArea == blockA.width * blockA.height + blockB.width * blockB.height
                     - overlapArea
  IN  IF unionArea > 0 THEN [num |-> overlapArea, den |-> unionArea]
      ELSE [num |-> 0, den |-> 1]

\* axis-aligned boxes, those without width or height among them
Boxes ==
  { [x |-> x, y |-> y, width |-> w, height |-> h] :
      x \in {0, 5, 20}, y \in {0, 5}, w \in {0, 10}, h \in {0, 10} }

IoUInit ==
  /\ RestInit
  /\ loader = NoLoader
  /\ \E f \in {"calculateIoU", "calculateOverlap"}, a \in Boxes, b \in Boxes :
       call = [fn |-> f, pc |-> "called", args |-> <<a, b>>]

CallCalculateIoU ==
  /\ call.fn = "calculateIoU" /\ call.pc = "called"
  /\ call' = [call EXCEPT !.pc = "returned"] @@
              [ret |-> calculateIoU(call.args[1], call.args[2])]
  /\ UNCHANGED restVars

CallCalculateOverlap ==
  /\ call.fn = "calculateOverlap" /\ call.pc = "called"
  /\ call' = [call EXCEPT !.pc = "returned"] @@
              [ret |-> calculateOverlap(call.args[1], call.args[2])]
  /\ UNCHANGED restVars

IoUNext == CallCalculateIoU \/ CallCalculateOverlap

SpecIoU == IoUInit /\ [][IoUNext]_vars

\* ------------------- ReadingOrderProcessor.validateReadingOrder
\* deltaX and deltaY of two blocks, doubled
DeltaX2(current, next) == Abs(CenterX2(next) - CenterX2(current))

DeltaY2(current, next) == Abs(CenterY2(next) - CenterY2(current))

\* a jump of 300 counted as large
LargeJump_atLeast(current, next) ==
  DeltaX2(current, next) >= 600 \/ DeltaY2(current, next) >= 600

\* deltaX > 300 || deltaY > 300
LargeJump(current, next) ==
  DeltaX2(current, next) > 600 \/ DeltaY2(current, next) > 600

\* the issues pushed for the pair at position i (from 0)
IssuesAt(orderedBlocks, i) ==
  LET current == orderedBlocks[i + 1]
      next == orderedBlocks[i + 2]
      overlap == calculateOverlap(current, next)
  IN  (IF LargeJump(current, next)
       THEN << [type |-> "large_jump", position |-> i,
                deltaX2 |-> DeltaX2(current, next),
                deltaY2 |-> DeltaY2(current, next)] >>
       ELSE << >>)
      \o (IF overlap.num * 1000 > 500 * overlap.den
          THEN << [type |-> "overlap", position |-> i, overlap |-> overlap] >>
          ELSE << >>)

validateReadingOrder(orderedBlocks) ==
  LET issues == Flatten([k \in 1..(Len(orderedBlocks) - 1) |->
                           IssuesAt(orderedBlocks, k - 1)])
  IN  [isValid |-> Len(issues) = 0, issues |-> issues]

MaxOrdered == 3

\* boxes equal, nearly equal, one half of another, 300 and 301 apart, far
\* below, and without area
OrderedBlock(x, y, width, height) ==
  [x |-> x, y |-> y, width |-> width, height |-> height]

OrderedBlocks ==
  { OrderedBlock(0, 0, 50, 50), OrderedBlock(2, 2, 50, 50),
    OrderedBlock(0, 0, 50, 25), OrderedBlock(300, 0, 50, 50),
    OrderedBlock(301, 0, 50, 50), OrderedBlock(0, 400, 50, 50),
    OrderedBlock(0, 0, 0, 0) }

ValidateInit ==
  /\ RestInit
  /\ loader = NoLoader
  /\ \E b \in SeqUpTo(OrderedBlocks, MaxOrdered) :
       call = [fn |-> "validateReadingOrder", pc |-> "called",
               orderedBlocks |-> b, args |-> b]

\* the call returns; orderedBlocks is the caller's array, which the function
\* only reads
CallValidateReadingOrder ==
  /\ call.fn = "validateReadingOrder" /\ call.pc = "called"
  /\ call' = [call EXCEPT !.pc = "returned"] @@
              [ret |-> validateReadingOrder(call.orderedBlocks)]
  /\ UNCHANGED restVars

ValidateNext == CallValidateReadingOrder

SpecValidate == ValidateInit /\ [][ValidateNext]_vars

\* -------------------------------------- LayoutDetector.postprocessOutput
MaxRows == 2

\* rows x1, y1, x2, y2, score of the detection network in input-space
\* pixels: inside the image, at and under the score threshold, at the top
\* and at the bottom of the input square, narrow, flat, and reaching out of
\* the square
RowInside == <<100, 100, 300, 400, 900>>
RowAtThreshold == <<120, 500, 320, 700, 300>>
RowUnderThreshold == <<120, 500, 320, 700, 299>>
RowAtTop == <<400, 0, 600, 500, 800>>
RowAtBottom == <<400, 600, 700, 1024, 700>>
RowNarrow == <<100, 100, 104, 400, 900>>
RowFlat == <<500, 100, 900, 109, 900>>
RowOutside == <<-20, -10, 50, 80, 600>>
RowRight == <<900, 100, 1020, 300, 850>>

DetectionRows ==
  { RowInside, RowAtThreshold, RowUnderThreshold, RowAtTop, RowAtBottom,
    RowNarrow, RowFlat, RowOutside, RowRight }

\* preprocessImage's metadata: maxWH is the side of the square the image
\* was padded to, the larger of its width and height
ImageMetadata ==
  { [originalWidth |-> w, originalHeight |-> h,
     maxWH |-> IF w > h THEN w ELSE h] :
      w \in {1000, 1024, 2000}, h \in {1000, 1024, 2000} }

PostprocessArgs ==
  { [rows |-> r, output |-> o, metadata |-> m] :
      r \in SeqUpTo(DetectionRows, MaxRows),
      o \in {"named", "generic"}, m \in ImageMetadata }

DetectInit ==
  /\ RestInit
  /\ loader = NoLoader
  /\ \E a \in PostprocessArgs :
       call = [fn |-> "postprocessOutput", pc |-> "called", args |-> a]

CallPostprocessOutput ==
  /\ call.fn = "postprocessOutput" /\ call.pc = "called"
  /\ LET a == call.args
         output == IF a.output = "named" THEN NamedOutput(a.rows)
                   ELSE GenericOutput(a.rows)
     IN  call' = [fn |-> "postprocessOutput", pc |-> "returned", args |-> a,
                  ret |-> postprocessOutput(output, a.metadata)]
  /\ UNCHANGED restVars

DetectNext == CallPostprocessOutput

SpecDetect == DetectInit /\ [][DetectNext]_vars

\* ------------------------------------------- TextRecognizer.postprocess
MaxSeqLength == 3

\* the scores of one position over a vocabulary of six: index 0 ends the
\* text, 1 to 3 are control symbols, 4 and 5 are the characters X and Y
VocabSize == 6

RowEos == <<9, 0, 0, 0, 0, 0>>
RowStart == <<0, 9, 0, 0, 0, 0>>
RowPad == <<0, 0, 9, 0, 0, 0>>
RowUnk == <<0, 1, 0, 9, 0, 0>>
RowX == <<0, 0, 0, 0, 9, 1>>
RowY == <<0, 1, 0, 0, 0, 9>>
\* the largest score twice: indexOf gives the first index, 0
RowEosOrX == <<5, 0, 0, 0, 5, 0>>

ScoreRows == {RowEos, RowStart, RowPad, RowUnk, RowX, RowY, RowEosOrX}

\* this.config.charList
CharList == <<"a", "b", "c", "X", "Y">>

\* the output tensor of the recognition session for rows of scores
Logits(rows) == [data |-> Flatten(rows), dims |-> <<1, Len(rows), VocabSize>>]

DecodeArgs ==
  { [outputs |-> Logits(rows), charList |-> CharList] :
      rows \in SeqUpTo(ScoreRows, MaxSeqLength) }

DecodeInit ==
  /\ RestInit
  /\ loader = NoLoader
  /\ \E a \in DecodeArgs : call = [fn |-> "postprocess", pc |-> "called", args |-> a]

\* decodeOutput calls postprocess: classIds is resultClassIds after the scan,
\* kept the class ids pushed to resultText, ret the text postprocess returns
\* and decoded what decodeOutput returns
CallPostprocess ==
  /\ call.fn = "postprocess" /\ call.pc = "called"
  /\ call' = [fn |-> "postprocess", pc |-> "returned", args |-> call.args,
              classIds |-> resultClassIds(call.args.outputs),
              kept |-> Collapse(resultClassIds(call.args.outputs), -1),
              ret |-> postprocess(call.args.outputs, call.args.charList),
              decoded |-> decodeOutput(call.args.outputs, call.args.charList)]
  /\ UNCHANGED restVars

DecodeNext == CallPostprocess

SpecDecode == DecodeInit /\ [][DecodeNext]_vars

\* ======================================================================
\*       the model cache of utils/model-loader.js (SpecCache)
\* ======================================================================
\* loader.store is the object store 'models' of the IndexedDB database,
\* shared by the page and the worker: the bytes saved under each model name.
\* Bytes are named by the download that fetched them (the n-th download
\* serves n).  loader.calls holds the calls of loadModel and
\* getCachedModels in the order they were made, each with the times it
\* started and settled; loader.cleared holds the times of the clear() of
\* clearCache.  The clock loader.now ticks at each call made.  The calls are
\* asynchronous and may overlap.
MaxLoaderCalls == 3
MaxClears == 1

\* the model names of the configuration, and one it does not know
ModelTypes == {"layout", "recognition"}
AnyModelTypes == ModelTypes \cup {"unknown"}

LoaderStart ==
  [store |-> << >>, calls |-> << >>, cleared |-> {}, downloads |-> 0, now |-> 0]

\* getModelFromCache: request.result?.data
getModelFromCache(store, modelName) ==
  IF modelName \in DOMAIN store THEN store[modelName] ELSE 0

\* saveModelToCache: store.put({ name: modelName, data })
saveModelToCache(store, modelName, data) ==
  [n \in DOMAIN store \cup {modelName} |-> IF n = modelName THEN data ELSE store[n]]

LoaderCall(fn, t, pc, now) ==
  [fn |-> fn, t |-> t, pc |-> pc, start |-> now, end |-> 0,
   downloaded |-> FALSE, data |-> 0, keys |-> {}]

Settled(c, pc, now) == [c EXCEPT !.pc = pc, !.end = now]

CacheInit ==
  /\ RestInit
  /\ call = NoCall
  /\ loader = LoaderStart

cacheFrame == <<ctlVars, inbox, outbox, wrkVars, terminals, job, call, api>>

\* loadModel(modelType) is called: getModelUrl throws for a name the
\* configuration does not hold
LoadModelCalled ==
  /\ Len(loader.calls) < MaxLoaderCalls
  /\ \E t \in AnyModelTypes :
       LET now == loader.now + 1
           c == LoaderCall("loadModel", t, "readCache", now)
       IN  loader' = [loader EXCEPT
                        !.now = now,
                        !.calls = Append(@, IF t \in ModelTypes THEN c
                                            ELSE Settled(c, "thrown", now))]
  /\ UNCHANGED cacheFrame

\* the cache is read: cached bytes are returned at once
LoadModelReadCache ==
  /\ \E k \in 1..Len(loader.calls) :
       LET c == loader.calls[k]
           cachedModel == getModelFromCache(loader.store, c.t)
           now == loader.now
       IN  /\ c.fn = "loadModel" /\ c.pc = "readCache"
           /\ loader' = [loader EXCEPT
                           !.calls[k] = IF cachedModel # 0
                                        THEN Settled([c EXCEPT !.data = cachedModel],
                                                     "returned", now)
                                        ELSE [c EXCEPT !.pc = "download"]]
  /\ UNCHANGED cacheFrame

\* downloadWithProgress ends: with the bytes, or with an HTTP or network error
LoadModelDownload ==
  /\ \E k \in 1..Len(loader.calls) :
       LET c == loader.calls[k]
           now == loader.now
       IN  /\ c.fn = "loadModel" /\ c.pc = "download"
           /\ \/ loader' = [loader EXCEPT
                                 !.downloads = @ + 1,
                              !.calls[k] = [c EXCEPT !.pc = "save",
                                                     !.downloaded = TRUE,
                                                     !.data = loader.downloads + 1]]
              \/ loader' = [loader EXCEPT
                                 !.calls[k] = Settled([c EXCEPT !.downloaded = TRUE],
                                                   "thrown", now)]
  /\ UNCHANGED cacheFrame

\* saveModelToCache ends and loadModel returns the bytes downloaded
LoadModelSave ==
  /\ \E k \in 1..Len(loader.calls) :
       LET c == loader.calls[k]
           now == loader.now
       IN  /\ c.fn = "loadModel" /\ c.pc = "save"
           /\ loader' = [loader EXCEPT
                           !.store = saveModelToCache(@, c.t, c.data),
                           !.calls[k] = Settled(c, "returned", now)]
  /\ UNCHANGED cacheFrame

\* getCachedModels() is called
GetCachedModelsCalled ==
  /\ Len(loader.calls) < MaxLoaderCalls
  /\ loader' = [loader EXCEPT
                  !.now = @ + 1,
                  !.calls = Append(@, LoaderCall("getCachedModels", "", "readKeys",
                                                 loader.now + 1))]
  /\ UNCHANGED cacheFrame

\* store.getAllKeys() succeeds
GetCachedModelsRead ==
  /\ \E k \in 1..Len(loader.calls) :
       LET c == loader.calls[k]
           now == loader.now
       IN  /\ c.fn = "getCachedModels" /\ c.pc = "readKeys"
           /\ loader' = [loader EXCEPT
                           !.calls[k] = Settled([c EXCEPT !.keys = DOMAIN loader.store],
                                                "returned", now)]
  /\ UNCHANGED cacheFrame

\* clearCache(): store.clear()
ClearCache ==
  /\ Cardinality(loader.cleared) < MaxClears
  /\ loader' = [loader EXCEPT !.now = @ + 1,
                              !.store = << >>,
                              !.cleared = @ \cup {loader.now + 1}]
  /\ UNCHANGED cacheFrame

CacheNext ==
  \/ LoadModelCalled
  \/ LoadModelReadCache
  \/ LoadModelDownload
  \/ LoadModelSave
  \/ GetCachedModelsCalled
  \/ GetCachedModelsRead
  \/ ClearCache

SpecCache == CacheInit /\ [][CacheNext]_vars

\* ======================================================================
\*                               claims
\* ======================================================================
IsRequestOCR(m) == m.type = "OCR_PROCESS"

IsRunningOCR(a) == a.kind = "OCR_PROCESS" /\ a.pc # "done"

IsAnswer(m) == IsTerminal(m) /\ m.id # 0

\* OCR_PROCESS requests posted to the worker whose terminal message the
\* controller has not handled yet
Outstanding ==
  Len(SelectSeq(inbox, IsRequestOCR)) + Len(SelectSeq(acts, IsRunningOCR))
    + Len(SelectSeq(outbox, IsAnswer))

\* C1: at most one OCR_PROCESS request is with the worker without its
\* terminal message having been handled.
C1_SingleRunningJob == Outstanding <= 1

\* C2: whenever the OCR_PROCESS of a job is posted, every job submitted before
\* it that no cancellation removed has had its own OCR_PROCESS posted earlier
\* and its terminal message handled.
C2_FifoDispatch ==
  [][\A j \in JobIds :
       sent'[j] > sent[j] =>
         \A h \in 1..(j - 1) :
            \/ removed[h] = "cancel"
            \/ removed'[h] = "terminal" /\ sent[h] > 0]_vars

\* two jobs submitted in the same millisecond, the first answered, the
\* second dispatched after it
C2_Witness ==
  /\ clock = 0
  /\ tasksCreated = 2
  /\ removed[1] = "terminal"
  /\ sent[1] = 1
  /\ sent[2] = 1
  /\ currentTaskId = 2

\* C3: the worker posts at most one terminal message per task id (so none
\* after the first), and the controller emits 'progress' for a task only
\* while its promise is pending.
C3_PerJobProtocol ==
  /\ [](\A id \in JobIds : terminals[id] <= 1)
  /\ [][(HandleWorkerMessage /\ Head(outbox).type = "OCR_PROGRESS")
          => promise[Head(outbox).id] = Pending]_vars

\* C4: cancelAllTasks rejects every queued or running job, empties the queue,
\* frees the slot and replaces the worker by a fresh one.
C4_CancelAll ==
  [][CancelAllTasks =>
       /\ \A id \in QueueIds(taskQueue) : promise'[id] \in Rejections
       /\ taskQueue' = << >>
       /\ ~isWorkerBusy'
       /\ currentTaskId' = 0
       /\ worker' \notin {0, worker}
       /\ acts' = << >> /\ ~isInitialized' /\ outbox' = << >>
       /\ inbox' = <<Request("INITIALIZE", 0)>>]_vars

\* job 1 running and job 2 queued, both rejected by cancelAllTasks
C4_Witness ==
  /\ promise[1] = "All tasks cancelled"
  /\ promise[2] = "All tasks cancelled"
  /\ sent[1] = 1
  /\ sent[2] = 0
  /\ worker = 2

\* C5 as stated: cancelCurrentTask with J1 running leaves every other queued
\* job in the queue with its promise pending.
C5_QueuePreserved ==
  [][(CancelCurrentTask /\ sent[currentTaskId] > 0) =>
       \A id \in QueueIds(taskQueue) \ {currentTaskId} :
          id \in QueueIds(taskQueue') /\ promise'[id] = promise[id]]_vars

\* C5 as amended: cancelCurrentTask with J1 running rejects J1 with 'Task
\* cancelled'; the other queued jobs do not stay queued: each is rejected with
\* 'Worker terminated', the queue is cleared, and none of them is posted to
\* the new worker, which is sent INITIALIZE only.
C5_QueueDropped ==
  [][(CancelCurrentTask /\ sent[currentTaskId] > 0) =>
       /\ promise[currentTaskId] = Pending
            => promise'[currentTaskId] = "Task cancelled"
       /\ \A id \in QueueIds(taskQueue) \ {currentTaskId} :
            /\ id \notin QueueIds(taskQueue')
            /\ promise[id] = Pending => promise'[id] = "Worker terminated"
            /\ promise'[id] # Pending
            /\ sent'[id] = sent[id]
       /\ inbox' = <<Request("INITIALIZE", 0)>>]_vars

\* job 1 cancelled while running, job 2 rejected without ever being posted
C5_Witness ==
  /\ promise[1] = "Task cancelled"
  /\ promise[2] = "Worker terminated"
  /\ sent[1] = 1
  /\ sent[2] = 0
  /\ inbox = <<Request("INITIALIZE", 0)>>

\* C6: cancelCurrentTask with a job running terminates and recreates the
\* worker, rejects the running job and every other queued job, and leaves the
\* queue empty and the slot free.
C6_CancelCurrentTearsDown ==
  [][CancelCurrentTask =>
       /\ worker' \notin {0, worker}
       /\ acts' = << >> /\ ~isInitialized' /\ outbox' = << >>
       /\ layoutDetector' = "null" /\ textRecognizer' = "null"
       /\ promise'[currentTaskId] \in Rejections
       /\ \A id \in QueueIds(taskQueue) : promise'[id] \in Rejections
       /\ taskQueue' = << >>
       /\ ~isWorkerBusy'
       /\ currentTaskId' = 0]_vars

\* the second worker right after cancelCurrentTask hit job 1 in mid-run
C6_Witness ==
  /\ worker = 2
  /\ promise[1] = "Task cancelled"
  /\ promise[2] = "Worker terminated"
  /\ taskQueue = << >>
  /\ ~isWorkerBusy
  /\ acts = << >>

\* C7: the progress values one OCR_PROCESS call posts, those of a lazy
\* initialization included, are non-decreasing and within [0,1].
C7_MonotoneProgress ==
  \A k \in 1..Len(acts) : acts[k].kind = "OCR_PROCESS" => acts[k].progressOK

\* C8: every OCR_ERROR posted for a job names the stage that failed.
C8_StageTagged ==
  \A i \in 1..Len(outbox) :
     (outbox[i].type = "OCR_ERROR" /\ outbox[i].id # 0)
       => outbox[i].stage \in PipelineStages \cup {"initialization"}

\* C9: handling the OCR_ERROR of job J1 rejects J1's promise and no other,
\* removes J1 from the queue, and posts the next queued job, which takes the
\* slot; with nothing queued the slot is left free.
C9_FailureIsolation ==
  [][(HandleWorkerMessage /\ Head(outbox).type = "OCR_ERROR"
        /\ Head(outbox).id \in QueueIds(taskQueue)) =>
       LET j == Head(outbox).id
           rest == Delete(taskQueue, j)
       IN  /\ promise'[j] \in Rejections
           /\ \A i \in JobIds \ {j} : promise'[i] = promise[i]
           /\ taskQueue' = rest
           /\ IF rest = << >>
              THEN ~isWorkerBusy' /\ currentTaskId' = 0 /\ inbox' = inbox
              ELSE /\ isWorkerBusy'
                   /\ currentTaskId' = rest[1].id
                   /\ inbox' = Append(inbox, Request("OCR_PROCESS", rest[1].id))]_vars

\* job 1 failed, job 2 ran through all stages after it and completed
C9_Witness ==
  /\ promise[1] = "OCR processing failed"
  /\ promise[2] = "resolved"
  /\ sent[1] = 1
  /\ sent[2] = 1

\* C10: a job whose initialization fails ends there with an OCR_ERROR that
\* carries its id and stage 'initialization', and posts no progress of the
\* pipeline stages.
C10_InitFailureFatal ==
  \A k \in 1..Len(acts) :
     (acts[k].kind = "OCR_PROCESS" /\ acts[k].initFailed) =>
        /\ acts[k].pc = "done"
        /\ acts[k].terminal = "OCR_ERROR"
        /\ acts[k].errorStage = "initialization"
        /\ acts[k].stages = << >>

\* ---------------------------------------------------------------- SpecJob
\* the geometry of a recognized region is that of the detection
SameBox(r, d) ==
  r.x = d.x /\ r.y = d.y /\ r.width = d.width /\ r.height = d.height

\* C11: recognition failures are local.  The k-th result belongs to the k-th
\* detection; a region whose recognition failed has empty text and
\* confidence 0; every other region has the text its own decoding gave,
\* whatever happened to the regions before it; and once detection has
\* returned, the job ends with OCR_COMPLETE with a result for every region.
C11_RecognitionLocal ==
  job.pc # "none" =>
    /\ \A k \in 1..Len(job.recognitionResults) :
         LET r == job.recognitionResults[k]
         IN  /\ SameBox(r, job.textRegions[k])
             /\ job.reads[k] = "fail" => r.text.text = "" /\ r.confidence = 0
             /\ job.reads[k] # "fail" =>
                  r.text.text = job.reads[k] /\ r.confidence = 900
    /\ (job.pc = "done" /\ job.detected) =>
         /\ job.message = "OCR_COMPLETE"
         /\ Len(job.recognitionResults) = Len(job.textRegions)

\* the first of two regions failed, the second was read, the job completed
C11_Witness ==
  /\ job.pc = "done"
  /\ job.message = "OCR_COMPLETE"
  /\ Len(job.textRegions) = 2
  /\ job.reads[1] = "fail"
  /\ job.recognitionResults[1].text.text = ""
  /\ job.recognitionResults[2].text.text = "B"
  /\ job.result.totalRegions = 2
  /\ job.result.successfulRecognitions = 1

\* the forms of the detector's output postprocessOutput is written for
RecognizedOutput(output) ==
  \/ /\ output.keys = <<"dets", "labels">>
     /\ Len(output.tensor["dets"].dims) = 3
     /\ output.tensor["dets"].dims[3] = 5
  \/ /\ Len(output.keys) = 1
     /\ Len(output.tensor[output.keys[1]].dims) = 2
     /\ output.tensor[output.keys[1]].dims[2] >= 6

\* C12: detection degrades gracefully.  For an output of unrecognized shape
\* or key names postprocessOutput returns the empty list, and the job ends
\* with OCR_COMPLETE, totalRegions = 0 and no text block.
C12_DetectionDegrades ==
  (job.pc # "none" /\ job.detected /\ ~RecognizedOutput(job.output)) =>
    /\ job.textRegions = << >>
    /\ job.pc = "done" =>
         /\ job.message = "OCR_COMPLETE"
         /\ job.result.totalRegions = 0
         /\ job.result.textBlocks = << >>

\* the directions the request asks for
DirectionOptions(config) ==
  IF "readingOrder" \in DOMAIN config
  THEN [readingDirection |-> config.readingOrder.direction,
        columnDirection |-> config.readingOrder.columnDirection]
  ELSE << >>

\* C13: direction overrides are honoured.  The textBlocks of a completed job
\* are the recognized regions ordered by the directions of the request's
\* config, vertical and right-to-left when it gives none.
C13_DirectionsHonoured ==
  (job.pc = "done" /\ job.message = "OCR_COMPLETE") =>
    job.result.textBlocks =
      process([textBlocks |-> job.recognitionResults,
               options |-> DirectionOptions(job.config)])

\* C14: output formats.  The result of a completed job has the field f, for
\* f among txt, json and xml, exactly when f is in config.outputFormats,
\* {txt} when outputFormats is omitted.
C14_OutputFormats ==
  (job.pc = "done" /\ job.message = "OCR_COMPLETE") =>
    \A f \in Formats :
      f \in DOMAIN job.result <=>
        f \in (IF "outputFormats" \in DOMAIN job.config
               THEN job.config.outputFormats ELSE {"txt"})


\* Whether the instance's worker is still the one the call was made on and
\* has reported no failure.
ApiUndisturbed == worker # 0 /\ api.errors = 0

\* C15: on an instance whose worker loads its models and processes the image
\* without a failure and is not terminated, the promise of initialize()
\* eventually resolves and the promise of processImage() eventually resolves
\* with the OCR_COMPLETE payload; neither ends in 'Worker initialization
\* timeout'.
C15_ApiResolves ==
  /\ (api.init = "pending") ~> (api.init = "resolved" \/ ~ApiUndisturbed)
  /\ (api.image \in {"initializing", "pending"})
        ~> (api.image = "resolved" \/ ~ApiUndisturbed)


\* ---------------------------------------------------------------- SpecOrder
Returned(fn) == call.fn = fn /\ call.pc = "returned"

\* the options process works with, and the blocks that pass its filter
OptionsOf(args) == Opt(args, "options", << >>)

BlocksOf(args) == Opt(args, "textBlocks", << >>)

ValidBlocksOf(args) ==
  SelectSeq(BlocksOf(args),
            LAMBDA b : IsValidBlock(b, Opt(OptionsOf(args), "minConfidence", 100)))

\* C16: dense reading order.  The k-th block of the list process returns has
\* readingOrder k, whatever the blocks and the direction options; null, an
\* empty list and a list whose blocks are all filtered out give the empty
\* list.
C16_DenseReadingOrder ==
  Returned("process") =>
    /\ \A k \in 1..Len(call.ret) : call.ret[k].readingOrder = k
    /\ Len(call.ret) = Len(ValidBlocksOf(call.args))
    /\ ValidBlocksOf(call.args) = << >> => call.ret = << >>

C16_Witness ==
  /\ Returned("process")
  /\ Len(call.ret) = 2
  /\ Len(BlocksOf(call.args)) = 3
  /\ "readingDirection" \in DOMAIN OptionsOf(call.args)

\* a block without its readingOrder
Unnumbered(b) == [f \in DOMAIN b \ {"readingOrder"} |-> b[f]]

Perms(n) == { p \in [1..n -> 1..n] : \A i, j \in 1..n : i # j => p[i] # p[j] }

IsPermutationOf(s, t) ==
  /\ Len(s) = Len(t)
  /\ \E q \in Perms(Len(s)) : \A i \in 1..Len(s) : s[i] = t[q[i]]

\* whether the list r is the columns cols in the order p, one after another,
\* each a rearrangement of the column with y never decreasing
ColumnByColumn(r, cols, p) ==
  LET start(k) == Sum([h \in 1..(k - 1) |-> Len(cols[p[h]])])
      part(k) == SubSeq(r, start(k) + 1, start(k) + Len(cols[p[k]]))
  IN  /\ Len(r) = Sum([k \in 1..Len(cols) |-> Len(cols[k])])
      /\ \A k \in 1..Len(cols) :
           /\ IsPermutationOf(part(k), cols[p[k]])
           /\ \A i \in 1..(Len(part(k)) - 1) : part(k)[i].y <= part(k)[i + 1].y

\* the mean horizontal centers of the columns never rise (right-to-left), or
\* never fall, along the order p
MeansOrdered(cols, p, direction) ==
  \A k \in 1..(Len(cols) - 1) :
    LET a == cols[p[k]]
        b == cols[p[k + 1]]
    IN  IF direction = "right-to-left"
        THEN SumCenterX2(a) * Len(b) >= SumCenterX2(b) * Len(a)
        ELSE SumCenterX2(a) * Len(b) <= SumCenterX2(b) * Len(a)

\* C17: vertical column-major order.  In vertical mode the list returned is
\* the columns one after another, ordered by mean horizontal center
\* (descending for right-to-left, ascending for left-to-right), each column
\* by increasing y; the blocks A, B, C of the example come out as C, A, B
\* numbered 1, 2, 3, and their text form is the three texts joined by
\* newlines.
C17_ColumnMajor ==
  Returned("process") /\ Opt(OptionsOf(call.args), "readingDirection", "vertical") = "vertical" =>
    LET direction == Opt(OptionsOf(call.args), "columnDirection", "right-to-left")
        cols == groupIntoColumns(ValidBlocksOf(call.args), 20)
        r == [k \in 1..Len(call.ret) |-> Unnumbered(call.ret[k])]
    IN  /\ \E p \in Perms(Len(cols)) :
             MeansOrdered(cols, p, direction) /\ ColumnByColumn(r, cols, p)
        /\ BlocksOf(call.args) = <<BlockA, BlockB, BlockC>> /\ direction = "right-to-left" =>
             /\ r = <<BlockC, BlockA, BlockB>>
             /\ [k \in 1..3 |-> call.ret[k].readingOrder] = <<1, 2, 3>>
             /\ call.txt = "C\nA\nB"

C17_Witness ==
  /\ Returned("process")
  /\ BlocksOf(call.args) = <<BlockA, BlockB, BlockC>>
  /\ OptionsOf(call.args) = [readingDirection |-> "vertical",
                             columnDirection |-> "right-to-left"]
  /\ call.txt = "C\nA\nB"


\* ------------------------------------------------------------------ SpecNMS
\* iou <= iouThreshold, for the quotient calculateIoU returns
IoUAtMost(iou, iouThreshold) ==
  iou.den > 0 /\ iou.num * 1000 <= iouThreshold * iou.den

\* C18: NMS separation.  Any two distinct detections of the list applyNMS
\* returns have an IoU less than or equal to the threshold.
C18_NMSSeparation ==
  Returned("applyNMS") =>
    \A i, j \in 1..Len(call.ret) :
      i # j => IoUAtMost(calculateIoU(call.ret[i], call.ret[j]),
                         call.args.iouThreshold)

\* a box suppressed and two overlapping ones kept
C18_Witness ==
  /\ Returned("applyNMS")
  /\ Len(call.args.detections) = 3
  /\ Len(call.ret) = 2
  /\ calculateIoU(call.ret[1], call.ret[2]).num > 0

\* the text of the block is one decodeOutput returns: trimmed
IsDecoded(b) == Trim(b.text.text) = b.text.text

\* C29: reading-order filter and permutation.  The list process returns
\* holds exactly the input blocks with confidence >= minConfidence (0.1 by
\* default) and a non-empty decoded text, each once and, but for its
\* readingOrder, unchanged.
C29_FilterAndPermutation ==
  Returned("process") /\ (\A i \in 1..Len(BlocksOf(call.args)) :
                            IsDecoded(BlocksOf(call.args)[i])) =>
    LET minConfidence == Opt(OptionsOf(call.args), "minConfidence", 100)
        qualifying == SelectSeq(BlocksOf(call.args),
                                LAMBDA b : /\ b.confidence >= minConfidence
                                           /\ b.text.text # "")
    IN  IsPermutationOf([k \in 1..Len(call.ret) |-> Unnumbered(call.ret[k])],
                        qualifying)

\* of three blocks the one without text is dropped, the one of confidence
\* 0.05 passes minConfidence 0.05, and the two come out in the other order
C29_Witness ==
  /\ Returned("process")
  /\ BlocksOf(call.args) = <<BlockFaint, BlockEmpty, BlockC>>
  /\ Opt(OptionsOf(call.args), "minConfidence", 100) = 50
  /\ Len(call.ret) = 2
  /\ Unnumbered(call.ret[1]) = BlockC
  /\ Unnumbered(call.ret[2]) = BlockFaint


\* --------------------------------------------------------------- SpecDecode
\* the arg-max index of each position of the call's scores, from position 1
ArgMaxes ==
  LET outputs == call.args.outputs
  IN  [i \in 1..outputs.dims[2] |-> ArgMax(outputs.data, outputs.dims[3], i - 1)]

\* the members of a set of numbers in increasing order
Ascending(S) ==
  [k \in 1..Cardinality(S) |->
     CHOOSE i \in S : Cardinality({j \in S : j < i}) = k - 1]

\* the positions before the first one whose arg-max is 0
BeforeEos(am) ==
  {i \in 1..Len(am) : \A h \in 1..i : am[h] # 0}

\* C19: greedy decoding stops at the end of sequence.  The class ids taken
\* are those of the positions before the first one whose arg-max is index 0,
\* in order, control symbols left out; no later position contributes, and
\* scores whose first position has arg-max 0 decode to the empty string.
C19_StopsAtEos ==
  Returned("postprocess") =>
    LET am == ArgMaxes
        taken == Ascending({i \in BeforeEos(am) : am[i] >= 4})
    IN  /\ call.classIds = [k \in 1..Len(taken) |-> am[taken[k]] - 1]
        /\ Len(am) > 0 /\ am[1] = 0 => call.ret = "" /\ call.decoded.text = ""

\* a character, the end of sequence, then a character that is not read
C19_Witness ==
  /\ Returned("postprocess")
  /\ ArgMaxes = <<4, 0, 5>>
  /\ call.ret = "X"

\* s without the members equal to their predecessor
WithoutRepeats(s) ==
  LET first == Ascending({i \in 1..Len(s) : i = 1 \/ s[i] # s[i - 1]})
  IN  [k \in 1..Len(first) |-> s[first[k]]]

\* C20: adjacent duplicates collapse.  The class ids mapped to characters
\* hold no two equal neighbours and are the appended ids without those equal
\* to their predecessor, in order; positions of one arg-max class (index >= 4),
\* with or without skipped control symbols between them, give exactly one
\* character.
C20_CollapsesRepeats ==
  Returned("postprocess") =>
    LET am == ArgMaxes
    IN  /\ \A k \in 1..(Len(call.kept) - 1) : call.kept[k] # call.kept[k + 1]
        /\ call.kept = WithoutRepeats(call.classIds)
        /\ call.ret = Join([k \in 1..Len(call.kept) |->
                              CharAt(call.args.charList, call.kept[k])], "")
        /\ \A c \in 4..(VocabSize - 1) :
             /\ \E i \in 1..Len(am) : am[i] = c
             /\ \A i \in 1..Len(am) : am[i] = c \/ am[i] \in 1..3
             => call.ret = CharAt(call.args.charList, c - 1) /\ Len(call.kept) = 1

\* three positions of the same class
C20_Witness ==
  /\ Returned("postprocess")
  /\ ArgMaxes = <<4, 4, 4>>
  /\ call.ret = "X"

\* the rows of scores of the call, one for each position
ScoreRowsOf(outputs) ==
  [i \in 1..outputs.dims[2] |->
     [j \in 1..outputs.dims[3] |-> outputs.data[(i - 1) * outputs.dims[3] + j]]]

\* C28: control symbols are skipped.  A position whose arg-max index is 1, 2
\* or 3 appends nothing and the scan goes on: the class ids are those of the
\* scores without these positions.  Scores whose arg-max indices are all 4 or
\* more append index - 1 for each position, and scores that are empty or
\* whose arg-max indices are all in 1..3 decode to the empty string, without
\* an error.
C28_SkipsControl ==
  Returned("postprocess") =>
    LET am == ArgMaxes
        rows == ScoreRowsOf(call.args.outputs)
        plain == Ascending({i \in 1..Len(am) : am[i] \notin 1..3})
    IN  /\ call.classIds = resultClassIds(Logits([k \in 1..Len(plain) |-> rows[plain[k]]]))
        /\ (\A i \in 1..Len(am) : am[i] >= 4) =>
             call.classIds = [i \in 1..Len(am) |-> am[i] - 1]
        /\ (\A i \in 1..Len(am) : am[i] \in 1..3) =>
             /\ call.classIds = << >>
             /\ call.ret = ""
             /\ call.decoded = [text |-> "", confidence |-> 900]

\* a character between two control symbols
C28_Witness ==
  /\ Returned("postprocess")
  /\ ArgMaxes = <<1, 4, 3>>
  /\ call.classIds = <<3>>
  /\ call.ret = "X"

\* ---------------------------------------------------------------- SpecCache
LoaderCalls == {loader.calls[k] : k \in 1..Len(loader.calls)}

Loads(t) == {c \in LoaderCalls : c.fn = "loadModel" /\ c.t = t}

\* when a call settled, the present for one still running
EndOf(c) == IF c.end = 0 THEN loader.now ELSE c.end

\* clearCache() was called after time a and not after time b
ClearedBetween(a, b) == \E j \in loader.cleared : a < j /\ j <= b

\* a call of loadModel(t) that returned, with no clearCache() from then to
\* the end of the call c
CachedFor(t, c) ==
  \E c0 \in Loads(t) :
    /\ c0.pc = "returned"
    /\ c0.end < c.start
    /\ ~ClearedBetween(c0.end, EndOf(c))

\* getCachedModels() lists a model loaded before and not cleared since
CacheListsLoaded ==
  \A g \in LoaderCalls, t \in ModelTypes :
    g.fn = "getCachedModels" /\ g.pc = "returned" /\ CachedFor(t, g) => t \in g.keys

\* a later loadModel(t) returns bytes some download saved and downloads nothing
CacheServesLoaded ==
  \A t \in ModelTypes : \A c \in Loads(t) :
    CachedFor(t, c) /\ c.pc # "readCache" =>
      /\ c.pc = "returned"
      /\ ~c.downloaded
      /\ \E d \in Loads(t) : d.downloaded /\ d.pc = "returned" /\ d.data = c.data

\* c is the first loadModel(t) called after the clearCache() of time j
NextLoadAfter(t, c, j) ==
  /\ c \in Loads(t)
  /\ c.start > j
  /\ \A d \in Loads(t) : ~(j < d.start /\ d.start < c.start)

\* the call has begun or ended a download
Downloads(c) == c.pc = "download" \/ c.downloaded

\* C21 as stated: a model loaded once is listed by getCachedModels() and
\* served from the cache without a download until clearCache() is called,
\* and the next loadModel(t) after clearCache() downloads again.
C21_ModelCache ==
  /\ CacheListsLoaded
  /\ CacheServesLoaded
  /\ \A t \in ModelTypes, j \in loader.cleared : \A c \in Loads(t) :
       NextLoadAfter(t, c, j) /\ c.pc # "readCache" => Downloads(c)

\* ------------------------------------------------------------ Spec (worker)
IsPrefix(s, t) == Len(s) <= Len(t) /\ s = SubSeq(t, 1, Len(s))

\* C22: stage order.  The stages of the id-tagged OCR_PROGRESS messages of a
\* job come in the order layout_detection, text_recognition, reading_order,
\* generating_output, none recurring after a later one has begun, and
\* OCR_COMPLETE only after generating_output; OCR_ERROR may follow any stage.
C22_StageOrder ==
  \A k \in 1..Len(acts) :
    acts[k].kind = "OCR_PROCESS" =>
      /\ IsPrefix(acts[k].stages, StageOrder)
      /\ acts[k].terminal = "OCR_COMPLETE" => acts[k].stages = StageOrder
      /\ ~acts[k].recurs

\* -------------------------------------------------------------- SpecUnknown
\* the message the next dispatch hands to self.onmessage / handleWorkerMessage
\* has a type the switch has no case for
UnknownAtWorker == inbox # << >> /\ Head(inbox).type \notin WorkerRequestTypes
UnknownAtController ==
  outbox # << >> /\ Head(outbox).type \notin WorkerMessageTypes

\* C23: unknown messages are ignored.  The dispatch of a message of unknown
\* type to self.onmessage posts nothing and leaves the worker's initialized
\* flag, its detector and recognizer and its suspended calls as they are;
\* its dispatch to handleWorkerMessage settles no promise, removes no task,
\* posts nothing and leaves taskQueue, isWorkerBusy and currentTaskId as
\* they are.  Nothing a later valid message's handler reads has changed.
C23_UnknownIgnored ==
  [][ /\ UnknownAtWorker /\ inbox' = Tail(inbox) =>
           /\ UNCHANGED <<outbox, terminals, isInitialized, layoutDetector,
                          textRecognizer, ctlVars>>
           /\ Running' = Running
      /\ UnknownAtController /\ outbox' = Tail(outbox) =>
           UNCHANGED <<promise, removed, taskQueue, isWorkerBusy,
                       currentTaskId, sent, inbox, wrkVars, terminals>> ]_vars

\* a call of self.onmessage with an unknown type has just returned while
\* the call for the current task is suspended in its pipeline, the task
\* still pending in taskQueue
C23_Witness ==
  \E j, k \in 1..Len(acts) :
    /\ j < k
    /\ acts[k].kind = UnknownType
    /\ acts[j].kind = "OCR_PROCESS"
    /\ acts[j].pc \in {"detect", "recognize"}
    /\ acts[j].id = currentTaskId
    /\ isWorkerBusy
    /\ promise[acts[j].id] = "pending"
\* --------------------------------------------------------------- SpecDetect
\* the top and the bottom of a row in the original image with the 2% of
\* its height added, as fractions over 100 * inputSize
ExpandedTop(row, metadata) == (100 * row[2] - 2 * (row[4] - row[2])) * metadata.maxWH
ExpandedBottom(row, metadata) == (100 * row[4] + 2 * (row[4] - row[2])) * metadata.maxWH

\* C24: detection output invariant.  Every detection postprocessOutput returns
\* has a raw score of at least 0.3, a width and a height of at least 10 and
\* lies inside the original image; its top and bottom are those of a row of
\* the tensor expanded by 2% of the row's height, then rounded and clipped.
C24_DetectionInvariant ==
  Returned("postprocessOutput") =>
    \A i \in 1..Len(call.ret) :
      LET d == call.ret[i]
          m == call.args.metadata
      IN  /\ d.confidence >= ScoreThreshold
          /\ d.width >= MinBoxSize /\ d.height >= MinBoxSize
          /\ d.x >= 0 /\ d.y >= 0
          /\ d.x + d.width <= m.originalWidth
          /\ d.y + d.height <= m.originalHeight
          /\ \E k \in 1..Len(call.args.rows) :
                LET row == call.args.rows[k]
                IN  /\ d.confidence = row[5]
                    /\ d.y = Max(0, Round(ExpandedTop(row, m), 100 * inputSize))
                    /\ d.y + d.height =
                         Min(m.originalHeight,
                             Round(ExpandedBottom(row, m), 100 * inputSize))

\* of two rows one is dropped, and the detection of the other was expanded
\* over the top of the image and reached over its right side: both clipped
C24_Witness ==
  /\ Returned("postprocessOutput")
  /\ Len(call.args.rows) = 2 /\ Len(call.ret) = 1
  /\ call.args.rows[1] = RowAtTop
  /\ call.ret[1].y = 0
  /\ call.ret[1].x + call.ret[1].width = call.args.metadata.originalWidth
  /\ call.args.metadata.originalWidth < call.args.metadata.maxWH
\* ------------------------------------------------------------------ SpecNMS
\* how often a value occurs in a list
Count(s, v) == Cardinality({i \in 1..Len(s) : s[i] = v})

\* C25: NMS output shape.  The list applyNMS returns holds every detection
\* at most as often as the input does, is no longer than the input and not
\* empty for a non-empty input, is sorted by non-increasing confidence, and
\* begins with a detection of the largest confidence of the input.
C25_NMSShape ==
  Returned("applyNMS") =>
    LET D == call.args.detections
        K == call.ret
    IN  /\ \A i \in 1..Len(K) : Count(K, K[i]) <= Count(D, K[i])
        /\ Len(K) <= Len(D)
        /\ Len(D) > 0 => Len(K) >= 1
        /\ \A i \in 1..(Len(K) - 1) : K[i].confidence >= K[i + 1].confidence
        /\ Len(D) > 0 => \A i \in 1..Len(D) : K[1].confidence >= D[i].confidence

\* three detections given in rising confidence, one of them suppressed
C25_Witness ==
  /\ Returned("applyNMS")
  /\ Len(call.args.detections) = 3 /\ Len(call.ret) = 2
  /\ call.args.detections[1].confidence < call.args.detections[2].confidence
  /\ call.args.detections[2].confidence < call.args.detections[3].confidence
\* the detections of a list, each with its index in the list
Indexed(D) == [i \in 1..Len(D) |-> Merge(D[i], [index |-> i])]

\* the indices of the detections applyNMS(D, t) does not keep
SuppressedIn(D, t) ==
  LET K == applyNMS(Indexed(D), t)
  IN  (1..Len(D)) \ {K[k].index : k \in 1..Len(K)}

\* C26: NMS stability under removal of a suppressed box.  For a detection d
\* that applyNMS(D) suppresses, applyNMS(D without d) returns the same
\* detections in the same order as applyNMS(D).
C26_NMSStable ==
  Returned("applyNMS") =>
    \A i \in SuppressedIn(call.args.detections, call.args.iouThreshold) :
      applyNMS(RemoveAt(call.args.detections, i), call.args.iouThreshold)
        = call.ret

\* DetNearA is suppressed by DetA, and DetNearNearA, which overlaps DetNearA
\* by more than the threshold and DetA by less, is kept
C26_Witness ==
  /\ Returned("applyNMS")
  /\ call.args.detections = <<DetNearNearA, DetNearA, DetA>>
  /\ call.args.iouThreshold = NMSThreshold
  /\ SuppressedIn(call.args.detections, call.args.iouThreshold) = {2}
  /\ call.ret = <<DetA, DetNearNearA>>
\* ------------------------------------------------------------------ SpecIoU
\* the areas of the intersection and of the union of two boxes
InterArea(a, b) ==
  Max(0, Min(a.x + a.width, b.x + b.width) - Max(a.x, b.x))
    * Max(0, Min(a.y + a.height, b.y + b.height) - Max(a.y, b.y))

UnionArea(a, b) == a.width * a.height + b.width * b.height - InterArea(a, b)

\* a returned ratio is a number (not NaN); it is the ratio n / d
IsNumber(r) == r.den # 0
IsRatio(r, n, d) == IsNumber(r) /\ r.num * d = n * r.den

\* what C27 says of a function f of two boxes that returned r
IoUDefinition(r, a, b) ==
  /\ UnionArea(a, b) > 0 => IsRatio(r, InterArea(a, b), UnionArea(a, b))
  /\ UnionArea(a, b) = 0 => IsRatio(r, 0, 1)
  /\ IsNumber(r) /\ 0 <= r.num /\ r.num <= r.den

\* C27 as stated: calculateIoU returns intersection area over union area, is
\* symmetric in its arguments, lies in [0, 1], and returns 0 when the union
\* area is 0.
C27_IoUDefinition ==
  Returned("calculateIoU") =>
    /\ IoUDefinition(call.ret, call.args[1], call.args[2])
    /\ calculateIoU(call.args[2], call.args[1]) = call.ret
\* -------------------------------------------------------------- SpecColumns
\* the horizontal centers of the blocks of a column, and of each column
CentersOf(column) == {CenterX2(column[m]) \div 2 : m \in 1..Len(column)}

CentersOfEach(columns) == [c \in 1..Len(columns) |-> CentersOf(columns[c])]

\* the blocks of a column that came before input position i
Earlier(column, i) == SelectSeq(column, LAMBDA b : b.index < i)

\* the mean horizontal center of a group that is not empty is within the
\* threshold of the block's center
WithinThreshold(b, group, threshold) ==
  /\ group # << >>
  /\ Abs(CenterX2(b) * Len(group) - SumCenterX2(group))
       <= 2 * threshold * Len(group)

\* C30: greedy column clustering.  Each block, in input order, is in the
\* first column whose blocks so far have a mean horizontal center within
\* the threshold of the block's center, and begins a new column, after the
\* existing ones, when there is none.  Blocks with the centers 10, 12, 200
\* and 600 and threshold 20 give the columns {10, 12}, {200} and {600};
\* sorted right-to-left these come as {600}, {200}, {10, 12}.
C30_GreedyColumns ==
  call.fn = "groupIntoColumns" /\ call.pc # "called" =>
    LET blocks == call.args.blocks
        t == call.args.threshold
        cols == groupIntoColumns(Indexed(blocks), t)
        example == /\ Len(blocks) = 4
                   /\ {CenterX2(blocks[i]) \div 2 : i \in 1..4} = {10, 12, 200, 600}
    IN  /\ call.ret = [c \in 1..Len(cols) |->
                         [m \in 1..Len(cols[c]) |-> blocks[cols[c][m].index]]]
        /\ \A i \in 1..Len(blocks) :
             Cardinality({cm \in (1..Len(cols)) \X (1..MaxColumnBlocks) :
                            /\ cm[2] <= Len(cols[cm[1]])
                            /\ cols[cm[1]][cm[2]].index = i}) = 1
        /\ \A c \in 1..Len(cols) :
             /\ cols[c] # << >>
             /\ \A m \in 1..(Len(cols[c]) - 1) :
                  cols[c][m].index < cols[c][m + 1].index
             /\ c < Len(cols) => cols[c][1].index < cols[c + 1][1].index
             /\ \A m \in 1..Len(cols[c]) :
                  LET b == cols[c][m]
                      near == {h \in 1..Len(cols) :
                                 WithinThreshold(b, Earlier(cols[h], b.index), t)}
                  IN  IF m = 1 THEN near = {}
                      ELSE c \in near /\ \A h \in near : c <= h
        /\ example =>
             /\ Len(call.ret) = 3
             /\ {CentersOf(call.ret[c]) : c \in 1..3} = {{10, 12}, {200}, {600}}
             /\ call.pc = "sorted" /\ call.args.direction = "right-to-left" =>
                  CentersOfEach(call.sorted) = <<{600}, {200}, {10, 12}>>

\* the blocks of the example, sorted right-to-left
C30_Witness ==
  /\ call.fn = "groupIntoColumns" /\ call.pc = "sorted"
  /\ call.args.blocks = <<ColumnBlock(10), ColumnBlock(12), ColumnBlock(200),
                          ColumnBlock(600)>>
  /\ call.args.direction = "right-to-left"
  /\ CentersOfEach(call.ret) = <<{10, 12}, {200}, {600}>>
  /\ CentersOfEach(call.sorted) = <<{600}, {200}, {10, 12}>>

\* ------- ReadingOrderProcessor.process on a list and on the list permuted
\* process(textBlocks) and process(the same blocks in another order), both
\* with the default options
PermuteArgs ==
  { [textBlocks |-> b, order |-> q] :
      b \in SeqUpTo({ColumnBlock(c) : c \in {10, 30, 31, 50, 200}}, MaxBlocks),
      q \in Perms(MaxBlocks) }

Permuted(s, q) ==
  LET kept == Ascending({i \in 1..Len(q) : q[i] <= Len(s)})
  IN  [k \in 1..Len(s) |-> s[q[kept[k]]]]

PermuteInit ==
  /\ RestInit
  /\ loader = NoLoader
  /\ \E a \in PermuteArgs :
       call = [fn |-> "process twice", pc |-> "called",
               args |-> [textBlocks |-> a.textBlocks,
                         permuted |-> Permuted(a.textBlocks, a.order)]]

\* the two calls return: columns and ret of the first, columns2 and ret2 of
\* the second
CallProcessTwice ==
  /\ call.fn = "process twice" /\ call.pc = "called"
  /\ call' = [fn |-> "process twice", pc |-> "returned", args |-> call.args,
              columns |-> groupIntoColumns(call.args.textBlocks, 20),
              ret |-> process([textBlocks |-> call.args.textBlocks]),
              columns2 |-> groupIntoColumns(call.args.permuted, 20),
              ret2 |-> process([textBlocks |-> call.args.permuted])]
  /\ UNCHANGED restVars

PermuteNext == CallProcessTwice

SpecPermute == PermuteInit /\ [][PermuteNext]_vars

\* the columns as a set of sets of centers, and the centers of a list
PartitionOf(columns) == {CentersOf(columns[c]) : c \in 1..Len(columns)}

CenterList(blocks) == [k \in 1..Len(blocks) |-> CenterX2(blocks[k]) \div 2]

\* C31: clustering is order-dependent.  The two calls return the same blocks,
\* but not always in the same columns: the blocks with centers 30, 50, 10
\* given in this order fall into the columns {30, 50} and {10} and are read
\* 30, 50, 10, and given in the order 10, 30, 50 into {10, 30} and {50} and
\* are read 50, 10, 30.
C31_OrderDependent ==
  Returned("process twice") =>
    /\ IsPermutationOf([k \in 1..Len(call.ret) |-> Unnumbered(call.ret[k])],
                       [k \in 1..Len(call.ret2) |-> Unnumbered(call.ret2[k])])
    /\ CenterList(call.args.textBlocks) = <<30, 50, 10>>
         /\ CenterList(call.args.permuted) = <<10, 30, 50>> =>
           /\ PartitionOf(call.columns) = {{30, 50}, {10}}
           /\ PartitionOf(call.columns2) = {{10, 30}, {50}}
           /\ CenterList(call.ret) = <<30, 50, 10>>
           /\ CenterList(call.ret2) = <<50, 10, 30>>

\* two orders of one set of blocks with different columns and reading orders
C31_Witness ==
  /\ Returned("process twice")
  /\ IsPermutationOf(call.args.textBlocks, call.args.permuted)
  /\ PartitionOf(call.columns) # PartitionOf(call.columns2)
  /\ CenterList(call.ret) # CenterList(call.ret2)
  /\ CenterList(call.args.textBlocks) = <<30, 50, 10>>
  /\ CenterList(call.args.permuted) = <<10, 30, 50>>

\* ------------------------------------------------------------- SpecValidate
\* the number of issues of a type reported for a position
IssueCount(issues, type, position) ==
  Cardinality({k \in 1..Len(issues) :
                 issues[k].type = type /\ issues[k].position = position})

\* C32: validator.  For each adjacent pair (i, i+1) of the list there is one
\* 'large_jump' issue when the centers are more than 300 apart on the x or
\* the y axis and none otherwise, and one 'overlap' issue when intersection
\* over union of the two boxes exceeds 0.5 and none otherwise; no other issue
\* is reported, isValid is true iff there is no issue, and the list is as it
\* was given.
C32_Validator ==
  Returned("validateReadingOrder") =>
    LET blocks == call.args
        issues == call.ret.issues
        far(a, b) == \/ Abs(CenterX2(b) - CenterX2(a)) > 2 * 300
                     \/ Abs(CenterY2(b) - CenterY2(a)) > 2 * 300
        over(a, b) == /\ UnionArea(a, b) > 0
                      /\ 2 * InterArea(a, b) > UnionArea(a, b)
    IN  /\ \A i \in 0..(Len(blocks) - 2) :
             /\ IssueCount(issues, "large_jump", i)
                  = IF far(blocks[i + 1], blocks[i + 2]) THEN 1 ELSE 0
             /\ IssueCount(issues, "overlap", i)
                  = IF over(blocks[i + 1], blocks[i + 2]) THEN 1 ELSE 0
        /\ \A k \in 1..Len(issues) :
             /\ issues[k].type \in {"large_jump", "overlap"}
             /\ issues[k].position \in 0..(Len(blocks) - 2)
        /\ call.ret.isValid <=> issues = << >>
        /\ call.orderedBlocks = blocks
        /\ Len(blocks) = 2 /\ blocks[1] = blocks[2]
             /\ blocks[1].width * blocks[1].height > 0 =>
               /\ Len(issues) = 1
               /\ issues[1].overlap.num = issues[1].overlap.den

\* a pair 300 apart and not reported, then a pair 301 apart on x and 400 on
\* y with a large_jump
C32_Witness ==
  /\ Returned("validateReadingOrder")
  /\ call.args = <<OrderedBlock(0, 0, 50, 50), OrderedBlock(300, 0, 50, 50),
                   OrderedBlock(0, 400, 50, 50)>>
  /\ Len(call.ret.issues) = 1
  /\ call.ret.issues[1].type = "large_jump"
  /\ call.ret.issues[1].position = 1
  /\ ~call.ret.isValid

\* --------------------------------------------------------- Spec (controller)
\* C33: each job is dispatched at most once.  At most one OCR_PROCESS message
\* with the id of a job is ever posted to a worker.
C33_DispatchedOnce == \A id \in JobIds : sent[id] <= 1

\* C34: busy-flag consistency.  isWorkerBusy is true iff currentTaskId is not
\* null, and while it is true a worker exists and currentTaskId names a task
\* of taskQueue whose OCR_PROCESS was posted.
C34_BusyConsistent ==
  /\ isWorkerBusy <=> currentTaskId # 0
  /\ isWorkerBusy =>
       /\ worker # 0
       /\ currentTaskId \in QueueIds(taskQueue)
       /\ sent[currentTaskId] > 0

\* C35: every job eventually settles.  With a worker that answers each
\* OCR_PROCESS it receives, the promise of every job that is pending while a
\* worker exists is eventually resolved or rejected.  A behaviour that has
\* used up the explored number of repeated dispatches is left out, so that
\* a behaviour violating this is one the program itself rests in.
C35_EverySettles ==
  \A id \in JobIds :
    (promise[id] = Pending /\ worker # 0)
      ~> (promise[id] # Pending \/ Resends(JobIds) >= MaxResends)

\* a call of self.onmessage that is inside initialize(): between its entry
\* past the isInitialized test and the return of textRecognizer.initialize
InInitialize(a) == a.pc \in {"loadLayout", "loadRecog", "initLayout", "initRecog"}

Initializing == {k \in 1..Len(acts) : InInitialize(acts[k])}

\* C36: single initialization per worker.  For any interleaving of
\* INITIALIZE and OCR_PROCESS messages at most one call is inside
\* initialize(), loading the models and creating the detector and the
\* recognizer, so that they are loaded and created at most once.
C36_SingleInitialization == Cardinality(Initializing) <= 1

\* ======================================================================
\*          the worker used directly, without WorkerMessageHandler
\* ======================================================================
\* A page constructs the Worker itself and posts to it; nothing reads the
\* messages the worker posts back, so outbox is the record of what the worker
\* emitted, in order.  INITIALIZE may or may not have been posted first.
DirectInit ==
  /\ worker = 1
  /\ taskQueue = << >>
  /\ currentTaskId = 0
  /\ isWorkerBusy = FALSE
  /\ promise = [id \in JobIds |-> "none"]
  /\ sent = [id \in JobIds |-> 0]
  /\ removed = [id \in JobIds |-> "no"]
  /\ tasksCreated = 0
  /\ workersCreated = 1
  /\ clock = 0
  /\ inbox \in {<< >>, <<Request("INITIALIZE", 0)>>}
  /\ outbox = << >>
  /\ acts = << >>
  /\ isInitialized = FALSE
  /\ layoutDetector = "null"
  /\ textRecognizer = "null"
  /\ terminals = [id \in JobIds |-> 0]
  /\ job = NoJob
  /\ call = NoCall
  /\ api = NoApi
  /\ loader = NoLoader

\* worker.postMessage({type: 'OCR_PROCESS', id: a, ...}) followed at once by
\* worker.postMessage({type: 'OCR_PROCESS', id: b, ...}), a = 1 and b = 2
PostBackToBack ==
  /\ \A id \in JobIds : sent[id] = 0
  /\ inbox' = inbox \o <<Request("OCR_PROCESS", 1), Request("OCR_PROCESS", 2)>>
  /\ sent' = [id \in JobIds |-> IF id \in {1, 2} THEN 1 ELSE 0]
  /\ UNCHANGED <<worker, taskQueue, currentTaskId, isWorkerBusy, promise,
                 removed, tasksCreated, workersCreated, clock>>
  /\ UNCHANGED <<outbox, wrkVars, terminals>>
  /\ UNCHANGED sideVars

DirectNext ==
  \/ PostBackToBack
  \/ Receive
  \/ LoadLayoutModel
  \/ LoadRecognitionModel
  \/ InitLayoutDetector
  \/ InitTextRecognizer
  \/ DetectInference
  \/ RecognizeInference

SpecDirect == DirectInit /\ [][DirectNext]_vars

\* C37: worker-side serialization.  Of two OCR_PROCESS messages posted back
\* to back to the worker, ids 1 then 2, the terminal message for 1 is
\* emitted before any OCR_PROGRESS message for 2.
C37_WorkerSerializes ==
  \A j \in 1..Len(outbox) :
    (IsProgress(outbox[j]) /\ outbox[j].id = 2)
      => \E i \in 1..(j - 1) : IsTerminal(outbox[i]) /\ outbox[i].id = 1

\* ------------------------------------------------- SpecJob: the counters
\* the text decodeOutput gives for the k-th region ("" when recognize failed)
DecodedText(k) == RecognitionResult(job.reads[k]).text

\* C38: result counters.  In the result of OCR_COMPLETE totalRegions is the
\* number of detections the detector kept, successfulRecognitions the number
\* of regions whose decoded text is non-empty, and textBlocks holds exactly
\* those regions, each once: textBlocks.length = successfulRecognitions <=
\* totalRegions.
C38_ResultCounters ==
  (job.pc # "none" /\ job.message = "OCR_COMPLETE") =>
    LET r == job.result
        kept == postprocessOutput(job.output, Metadata)
        read == {k \in 1..Len(kept) : DecodedText(k) # ""}
        blockOf(k) == RegionResult(kept[k], RecognitionResult(job.reads[k]))
    IN  /\ r.totalRegions = Len(kept)
        /\ r.successfulRecognitions = Cardinality(read)
        /\ Len(r.textBlocks) = r.successfulRecognitions
        /\ r.successfulRecognitions <= r.totalRegions
        /\ \A k \in read :
             Cardinality({j \in 1..Len(r.textBlocks) :
                            Unnumbered(r.textBlocks[j]) = blockOf(k)})
               = Cardinality({h \in read : blockOf(h) = blockOf(k)})
        /\ \A j \in 1..Len(r.textBlocks) :
             \E k \in read : Unnumbered(r.textBlocks[j]) = blockOf(k)

\* two regions were kept, one of them was read and the other was not
C38_Witness ==
  /\ job.pc # "none" /\ job.message = "OCR_COMPLETE"
  /\ job.result.totalRegions = 2
  /\ job.result.successfulRecognitions = 1
  /\ Len(job.result.textBlocks) = 1

\* ------------------------------------------ WorkerMessageHandler: status
getQueueStatus ==
  [queueSize |-> Len(taskQueue),
   isWorkerBusy |-> isWorkerBusy,
   currentTaskId |-> currentTaskId,
   totalTasks |-> Len(taskQueue) + (IF isWorkerBusy THEN 1 ELSE 0)]

\* C39: queue status accounting.  As long as no job was submitted without a
\* worker, totalTasks is the number of submitted jobs whose promise is not
\* settled, the running job counted once, and queueSize is the number of
\* jobs in taskQueue, waiting or running.
C39_QueueAccounting ==
  (\A id \in JobIds : promise[id] # "Worker not initialized") =>
    /\ getQueueStatus.totalTasks =
         Cardinality({id \in JobIds : promise[id] = Pending})
    /\ getQueueStatus.queueSize = Cardinality(QueueIds(taskQueue))

====
